---- MODULE Spec2Model ----
(***************************************************************************)
(* A model of the EDL codec of blender_edl_exporter: the two TimeCode      *)
(* classes (src/edl_export.py and src/edl_import.py), the writer's event   *)
(* line (EDLList.save_edl), the event parser (EditDecision, EditList) and  *)
(* the export builder (write_edl).                                         *)
(*                                                                         *)
(* Text is modelled as a sequence of one-character strings, so that        *)
(* formatting, slicing and tokenizing are computed column by column.       *)
(***************************************************************************)
EXTENDS Integers, Sequences, FiniteSets, TLC

(***************************************************************************)
(* Python's str methods, on sequences of characters.                       *)
(***************************************************************************)
DigitChars == <<"0", "1", "2", "3", "4", "5", "6", "7", "8", "9">>

UpperChars == <<"A", "B", "C", "D", "E", "F", "G", "H", "I", "J", "K", "L", "M",
                "N", "O", "P", "Q", "R", "S", "T", "U", "V", "W", "X", "Y", "Z">>

LowerChars == <<"a", "b", "c", "d", "e", "f", "g", "h", "i", "j", "k", "l", "m",
                "n", "o", "p", "q", "r", "s", "t", "u", "v", "w", "x", "y", "z">>

Range(s) == {s[i] : i \in 1..Len(s)}

IsDigitChar(c) == c \in Range(DigitChars)

IsAlphaChar(c) == c \in Range(UpperChars) \cup Range(LowerChars)

IsSpaceChar(c) == c \in {" ", "\n", "\t", "\r"}

DigitVal(c) == (CHOOSE i \in 1..10 : DigitChars[i] = c) - 1

LowerChar(c) ==
    IF c \in Range(UpperChars)
    THEN LowerChars[CHOOSE i \in 1..26 : UpperChars[i] = c]
    ELSE c

\* str.lower()
Lower(s) == [i \in 1..Len(s) |-> LowerChar(s[i])]

\* str.isdigit(): non-empty and every character a digit
IsDigit(s) == Len(s) > 0 /\ \A i \in 1..Len(s) : IsDigitChar(s[i])

\* the characters of s that satisfy keep, in order (a comprehension joined by '')
FilterSeq(s, keep) == SelectSeq(s, LAMBDA c : c \in keep)

OnlyDigits(s) == FilterSeq(s, Range(DigitChars))

NoDigits(s) == FilterSeq(s, Range(s) \ Range(DigitChars))

\* s[a:b] for 0 <= a <= b, clipped to the length of s as Python does
Slice(s, a, b) ==
    LET hi == IF b < Len(s) THEN b ELSE Len(s)
    IN  IF a >= hi THEN <<>> ELSE SubSeq(s, a + 1, hi)

\* s[:n]
Prefix(s, n) == Slice(s, 0, n)

\* s[:-n]
DropLast(s, n) == IF Len(s) <= n THEN <<>> ELSE SubSeq(s, 1, Len(s) - n)

StartsWith(s, p) == Len(s) >= Len(p) /\ SubSeq(s, 1, Len(p)) = p

EndsWith(s, p) == Len(s) >= Len(p) /\ SubSeq(s, Len(s) - Len(p) + 1, Len(s)) = p

\* p in s
Contains(s, p) ==
    \E i \in 0..Len(s) : i + Len(p) <= Len(s) /\ SubSeq(s, i + 1, i + Len(p)) = p

\* the places of s that hold no whitespace
Inked(s) == {i \in 1..Len(s) : ~IsSpaceChar(s[i])}

\* the least and the greatest member of a non-empty set of places
Least(places) == CHOOSE i \in places : \A j \in places : i <= j

Greatest(places) == CHOOSE i \in places : \A j \in places : j <= i

LStrip(s) == IF Inked(s) = {} THEN <<>> ELSE SubSeq(s, Least(Inked(s)), Len(s))

RStrip(s) == IF Inked(s) = {} THEN <<>> ELSE SubSeq(s, 1, Greatest(Inked(s)))

\* str.strip()
Strip(s) == RStrip(LStrip(s))

\* str.split(): the maximal runs of non-whitespace characters
\* the places where a run starts: no whitespace there, whitespace or nothing before
RunStarts(s) == {i \in Inked(s) : i = 1 \/ IsSpaceChar(s[i - 1])}

\* the k-th member of a set of places, in increasing order
NthPlace(places, k) == CHOOSE i \in places : Cardinality({j \in places : j <= i}) = k

\* the place where the run starting at i ends
RunEnd(s, i) ==
    Least({j \in i..Len(s) : j = Len(s) \/ IsSpaceChar(s[j + 1])})

RunFrom(s, i) == SubSeq(s, i, RunEnd(s, i))

Split(s) ==
    [k \in 1..Cardinality(RunStarts(s)) |-> RunFrom(s, NthPlace(RunStarts(s), k))]

\* str.split(sep) for a one-character separator: empty fields are kept
\* the places of the separators, with the places before and after s
SepPlaces(s, sep) == {0, Len(s) + 1} \cup {i \in 1..Len(s) : s[i] = sep}

\* what stands between the k-th and the next of those places
FieldAt(s, places, k) ==
    SubSeq(s, NthPlace(places, k) + 1, NthPlace(places, k + 1) - 1)

SplitChar(s, sep) ==
    [k \in 1..(Cardinality(SepPlaces(s, sep)) - 1) |-> FieldAt(s, SepPlaces(s, sep), k)]

\* str.split(sep, 1)[1]: what follows the first sep (s is known to hold one)
AfterFirst(s, sep) ==
    LET i == CHOOSE k \in 1..Len(s) : s[k] = sep /\ \A j \in 1..(k - 1) : s[j] # sep
    IN  SubSeq(s, i + 1, Len(s))

\* sep.join(parts) (the list is taken by halves)
RECURSIVE Join(_, _)
Join(parts, sep) ==
    IF parts = <<>> THEN <<>>
    ELSE IF Len(parts) = 1 THEN parts[1]
    ELSE Join(SubSeq(parts, 1, Len(parts) \div 2), sep) \o sep
         \o Join(SubSeq(parts, Len(parts) \div 2 + 1, Len(parts)), sep)

\* str.replace(old, new) for one-character old and new
ReplaceChar(s, old, new) == [i \in 1..Len(s) |-> IF s[i] = old THEN new ELSE s[i]]

Abs(n) == IF n < 0 THEN -n ELSE n

RECURSIVE Pow10(_)
Pow10(k) == IF k = 0 THEN 1 ELSE 10 * Pow10(k - 1)

RECURSIVE DigitsToNat(_, _)
DigitsToNat(s, acc) ==
    IF s = <<>> THEN acc ELSE DigitsToNat(Tail(s), 10 * acc + DigitVal(Head(s)))

RECURSIVE NatToDigits(_)
NatToDigits(n) ==
    IF n < 10 THEN <<DigitChars[n + 1]>>
    ELSE NatToDigits(n \div 10) \o <<DigitChars[(n % 10) + 1]>>

Repeat(c, n) == [i \in 1..n |-> c]

\* format(n, "0Wd"): sign, then digits zero-padded so that the whole is W wide
FmtInt(n, w) ==
    LET d == NatToDigits(Abs(n))
        sign == IF n < 0 THEN <<"-">> ELSE <<>>
    IN  sign \o Repeat("0", w - Len(d) - Len(sign)) \o d

\* format(s, "<Ws") and format(s, ">Ws"): pad with spaces, never truncate
LJust(s, w) == s \o Repeat(" ", w - Len(s))

RJust(s, w) == Repeat(" ", w - Len(s)) \o s

\* str.zfill(w) of a digit string
ZFill(s, w) == Repeat("0", w - Len(s)) \o s

(***************************************************************************)
(* int(text) and float(text).  int accepts surrounding whitespace, one     *)
(* sign and decimal digits; float accepts the same with at most one point. *)
(* Digit-group underscores and the exponent, inf and nan forms of float    *)
(* are outside the alphabets the inputs below are drawn from.              *)
(***************************************************************************)
Unsigned(s) == IF s # <<>> /\ Head(s) \in {"+", "-"} THEN Tail(s) ELSE s

SignOf(s) == IF s # <<>> /\ Head(s) = "-" THEN -1 ELSE 1

IntOk(s) == IsDigit(Unsigned(Strip(s)))

IntVal(s) == SignOf(Strip(s)) * DigitsToNat(Unsigned(Strip(s)), 0)

FloatParts(s) == SplitChar(Unsigned(Strip(s)), ".")

FloatOk(s) ==
    LET p == FloatParts(s)
    IN  \/ Len(p) = 1 /\ IsDigit(p[1])
        \/ /\ Len(p) = 2
           /\ p[1] \o p[2] # <<>>
           /\ \A i \in 1..2 : p[i] = <<>> \/ IsDigit(p[i])

\* int(float(s) * fps): the decimal value times fps, truncated toward zero
FloatTimesInt(s, fps) ==
    LET p == FloatParts(s)
        k == IF Len(p) = 2 THEN Len(p[2]) ELSE 0
        num == DigitsToNat(p[1] \o (IF Len(p) = 2 THEN p[2] ELSE <<>>), 0)
    IN  SignOf(Strip(s)) * ((num * fps) \div Pow10(k))

(***************************************************************************)
(* TimeCode.  An object is a record of its slots; bound = FALSE is the     *)
(* object whose hours/minutes/seconds/frame slots were never assigned, so  *)
(* that reading one raises AttributeError.  The outcome of a constructor   *)
(* is [exc, diag, tc]: the exception that left it ("" for none), whether   *)
(* the "Could not convert" diagnostic was printed, and the object.         *)
(***************************************************************************)
None == <<>>

Some(x) == <<x>>

NewTimeCode(fps) ==
    [fps |-> fps, hours |-> 0, minutes |-> 0, seconds |-> 0, frame |-> 0,
     bound |-> FALSE]

Outcome(exc, diag, tc) == [exc |-> exc, diag |-> diag, tc |-> tc]

\* a seconds field that is never reduced modulo 60
Exp_from_frame_mut(self, frame) ==
    LET neg == frame < 0
        f0 == Abs(frame)
        fr == f0 % self.fps
        f1 == (f0 - fr) \div self.fps
        sec == f1
        f2 == (f1 - (f1 % 60)) \div 60
        min == f2 % 60
        hrs == (f2 - min) \div 60
        sg == IF neg THEN -1 ELSE 1
    IN  [self EXCEPT !.frame = sg * fr, !.seconds = sg * sec, !.minutes = sg * min,
                     !.hours = sg * hrs, !.bound = TRUE]

\* exporter TimeCode.from_frame
Exp_from_frame(self, frame) ==
    LET neg == frame < 0
        f0 == Abs(frame)
        fr == f0 % self.fps
        f1 == (f0 - fr) \div self.fps
        sec == f1 % 60
        f2 == (f1 - sec) \div 60
        min == f2 % 60
        hrs == (f2 - min) \div 60
        sg == IF neg THEN -1 ELSE 1
    IN  [self EXCEPT !.frame = sg * fr, !.seconds = sg * sec, !.minutes = sg * min,
                     !.hours = sg * hrs, !.bound = TRUE]

\* exporter TimeCode.as_frame (the slots are bound)
Exp_as_frame(self) ==
    LET abs_frame == (Abs(self.hours) * 60 * 60 * self.fps)
                     + (Abs(self.minutes) * 60 * self.fps)
                     + (Abs(self.seconds) * self.fps)
                     + Abs(self.frame)
    IN  IF self.hours < 0 THEN -abs_frame ELSE abs_frame

\* exporter TimeCode.__str__
Exp_str(self) ==
    FmtInt(Abs(self.hours), 2) \o <<":">> \o FmtInt(Abs(self.minutes), 2) \o <<":">>
    \o FmtInt(Abs(self.seconds), 2) \o <<":">> \o FmtInt(Abs(self.frame), 2)

\* importer TimeCode.from_frame.  int(frame / fph) is the float quotient
\* truncated, which is the integer quotient for every count below 2^53.
Imp_from_frame(self, frame) ==
    LET neg == frame < 0
        f0 == Abs(frame)
        fpm == 60 * self.fps
        fph == 60 * fpm
        hrs == IF f0 < fph THEN 0 ELSE f0 \div fph
        f1 == IF f0 < fph THEN f0 ELSE f0 % fph
        min == IF f1 < fpm THEN 0 ELSE f1 \div fpm
        f2 == IF f1 < fpm THEN f1 ELSE f1 % fpm
        sec == IF f2 < self.fps THEN 0 ELSE f2 \div self.fps
        fr == IF f2 < self.fps THEN f2 ELSE f2 % self.fps
        sg == IF neg THEN -1 ELSE 1
    IN  [self EXCEPT !.frame = sg * fr, !.seconds = sg * sec, !.minutes = sg * min,
                     !.hours = sg * hrs, !.bound = TRUE]

\* importer TimeCode.as_frame (the slots are bound)
Imp_as_frame(self) ==
    self.frame + self.seconds * self.fps + self.minutes * 60 * self.fps
    + self.hours * 60 * 60 * self.fps

\* importer TimeCode.__str__
Imp_str(self) ==
    FmtInt(self.hours, 2) \o <<":">> \o FmtInt(self.minutes, 2) \o <<":">>
    \o FmtInt(self.seconds, 2) \o <<":">> \o FmtInt(self.frame, 2)

\* the colon branch of from_string, shared by both classes: the four int()
\* conversions in order, the first failing one raising
ColonFields(self, text) ==
    LET t == ReplaceChar(ReplaceChar(ReplaceChar(text, ";", ":"), ",", ":"), ".", ":")
        parts == SplitChar(t, ":")
        Bad(i) == IF i > Len(parts) THEN "IndexError"
                  ELSE IF ~IntOk(parts[i]) THEN "ValueError" ELSE ""
        V(i) == IntVal(parts[i])
    IN  IF Bad(1) # "" THEN Outcome(Bad(1), FALSE, self)
        ELSE IF Bad(2) # ""
        THEN Outcome(Bad(2), FALSE, [self EXCEPT !.hours = V(1)])
        ELSE IF Bad(3) # ""
        THEN Outcome(Bad(3), FALSE, [self EXCEPT !.hours = V(1), !.minutes = V(2)])
        ELSE IF Bad(4) # ""
        THEN Outcome(Bad(4), FALSE,
                     [self EXCEPT !.hours = V(1), !.minutes = V(2), !.seconds = V(3)])
        ELSE Outcome("", FALSE,
                     [self EXCEPT !.hours = V(1), !.minutes = V(2), !.seconds = V(3),
                                  !.frame = V(4), !.bound = TRUE])

\* exporter TimeCode.from_string
Exp_from_string(self, text) ==
    IF EndsWith(Lower(text), <<"m", "p", "s">>)
    THEN IF FloatOk(DropLast(text, 3))
         THEN Outcome("", FALSE,
                      Exp_from_frame(self, FloatTimesInt(DropLast(text, 3), self.fps)))
         ELSE Outcome("ValueError", FALSE, self)
    ELSE IF EndsWith(Lower(text), <<"s">>)
    THEN IF FloatOk(DropLast(text, 1))
         THEN Outcome("", FALSE,
                      Exp_from_frame(self, FloatTimesInt(DropLast(text, 1), self.fps)))
         ELSE Outcome("ValueError", FALSE, self)
    ELSE IF IsDigit(text)
    THEN Outcome("", FALSE, Exp_from_frame(self, DigitsToNat(text, 0)))
    ELSE IF Contains(text, <<":">>)
    THEN ColonFields(self, text)
    ELSE Outcome("", TRUE, self)

\* importer TimeCode.from_string
Imp_from_string(self, text) ==
    IF EndsWith(Lower(text), <<"m", "p", "s">>)
    THEN IF FloatOk(DropLast(text, 3))
         THEN Outcome("", FALSE,
                      Imp_from_frame(self, FloatTimesInt(DropLast(text, 3), self.fps)))
         ELSE Outcome("ValueError", FALSE, self)
    ELSE IF EndsWith(Lower(text), <<"s">>)
    THEN IF FloatOk(DropLast(text, 1))
         THEN Outcome("", FALSE,
                      Imp_from_frame(self, FloatTimesInt(DropLast(text, 1), self.fps)))
         ELSE Outcome("ValueError", FALSE, self)
    ELSE IF IsDigit(text)
    THEN Outcome("", FALSE, Imp_from_frame(self, DigitsToNat(text, 0)))
    ELSE IF Contains(text, <<":">>)
    THEN ColonFields(self, text)
    ELSE Outcome("", TRUE, self)

\* TimeCode.__init__ with a str, without the as_frame / from_frame pass
Exp_after_string_mut(r) ==
    IF r.exc # "" THEN r
    ELSE IF ~r.tc.bound THEN Outcome("AttributeError", r.diag, r.tc)
    ELSE Outcome("", r.diag, r.tc)

\* exporter TimeCode.__init__ with a str: from_string, then as_frame (which
\* reads the slots), then from_frame
Exp_after_string(r) ==
    IF r.exc # "" THEN r
    ELSE IF ~r.tc.bound THEN Outcome("AttributeError", r.diag, r.tc)
    ELSE Outcome("", r.diag, Exp_from_frame(r.tc, Exp_as_frame(r.tc)))

Exp_init_str(text, fps) == Exp_after_string(Exp_from_string(NewTimeCode(fps), text))

\* exporter TimeCode.__init__ with a number
Exp_init_int(frame, fps) == Outcome("", FALSE, Exp_from_frame(NewTimeCode(fps), frame))

\* importer TimeCode.__init__ with a str
Imp_after_string(r) ==
    IF r.exc # "" THEN r
    ELSE IF ~r.tc.bound THEN Outcome("AttributeError", r.diag, r.tc)
    ELSE Outcome("", r.diag, Imp_from_frame(r.tc, Imp_as_frame(r.tc)))

Imp_init_str(text, fps) == Imp_after_string(Imp_from_string(NewTimeCode(fps), text))

\* importer TimeCode.__init__ with a number
Imp_init_int(frame, fps) == Outcome("", FALSE, Imp_from_frame(NewTimeCode(fps), frame))

(***************************************************************************)
(* State.  Each group of variables belongs to one component; a             *)
(* specification exercises one component and leaves the others idle.       *)
(***************************************************************************)
VARIABLES
    tc_fps,     \* TimeCode: the frame rate given to the constructor
    tc_data,    \* TimeCode: the constructor's data, a frame count or a text
    tc_exp,     \* the exporter's TimeCode(data, fps): None, or Some(outcome)
    tc_imp,     \* the importer's TimeCode(data, fps): None, or Some(outcome)
    tc_out,     \* results of as_frame() and str() on the two objects
    rl_name,    \* sanitize_reel_name: the name given
    rl_format,  \* sanitize_reel_name: the format_type given ("" before the call)
    rl_out,     \* sanitize_reel_name: None, or Some(the value returned)
    ov_edits,   \* overlap_test: EditList.edits, each with its recIn and recOut
    ov_test,    \* overlap_test: the place in edits of edit_test (0 before the call)
    ov_result,  \* overlap_test: None, or Some(the value returned)
    ln_fps,     \* event line: the project frame rate
    ln_strip,   \* event line: the strip the block is built from
    ln_block,   \* event line: None, or Some(the EDLBlock built)
    ln_format,  \* event line: the format of the EDLList ("" before save_edl)
    ln_line,    \* event line: None, or Some(the line save_edl wrote for the block)
    ln_edit,    \* event line: None, or Some(outcome of EditDecision on that line)
    ps_edits,   \* EditList.edits
    ps_title,   \* EditList.title
    ps_detected_format,  \* EditList.detected_format: None, or Some(format)
    ps_file,    \* parse: the file given: [readable, lines], lines as readlines() gives
    ps_result,  \* parse: None, or Some(the value returned)
    ps_diag,    \* parse: the places in edits of the events whose read raised
    sc_strips,  \* scene.sequence_editor.sequences_all
    sc_frame_start,     \* scene.frame_start
    sc_video_channel,   \* scene.edl_video_channel
    sc_audio_tracks,    \* scene.edl_audio_tracks: the channel of each track
    sc_options, \* scene: [markers, export_markers, export_metadata]
    sc_fps,     \* get_fps()
    ex_format,  \* write_edl: the format asked for
    ex_result,  \* write_edl: None, or Some(what the call did)
    df_lines,   \* detect_format: the file_lines given
    df_out,     \* detect_format: None, or Some(the value returned)
    at_side,    \* audio tracks: "export" (scene.edl_audio_tracks) or "import"
                \* (scene.edl_import_info.audio_tracks), "" when idle
    at_video_channel,   \* audio tracks: the video channel of that side
    at_tracks,  \* audio tracks: the channel of each track of the collection
    at_last,    \* audio tracks: None, or Some([before, channel]) of the last add
    at_ops,     \* audio tracks: the number of operator calls so far
    ld_in,      \* load_edl: [lines, reel_files, loadable, global_offset, audio_channels]
    ld_out      \* load_edl: None, or Some(what the call did)

tcVars == <<tc_fps, tc_data, tc_exp, tc_imp, tc_out>>

rlVars == <<rl_name, rl_format, rl_out>>

ovVars == <<ov_edits, ov_test, ov_result>>

lnVars == <<ln_fps, ln_strip, ln_block, ln_format, ln_line, ln_edit>>

psVars == <<ps_edits, ps_title, ps_detected_format, ps_file, ps_result, ps_diag>>

exVars == <<sc_strips, sc_frame_start, sc_video_channel, sc_audio_tracks, sc_options,
           sc_fps, ex_format, ex_result>>

dfVars == <<df_lines, df_out>>

atVars == <<at_side, at_video_channel, at_tracks, at_last, at_ops>>

ldVars == <<ld_in, ld_out>>

vars == <<tcVars, rlVars, ovVars, lnVars, psVars, exVars, dfVars, atVars, ldVars>>

\* what each component's actions leave alone
tcOthers == <<rlVars, ovVars, lnVars, psVars, exVars, dfVars, atVars, ldVars>>

rlOthers == <<tcVars, ovVars, lnVars, psVars, exVars, dfVars, atVars, ldVars>>

ovOthers == <<tcVars, rlVars, lnVars, psVars, exVars, dfVars, atVars, ldVars>>

lnOthers == <<tcVars, rlVars, ovVars, psVars, exVars, dfVars, atVars, ldVars>>

psOthers == <<tcVars, rlVars, ovVars, lnVars, exVars, dfVars, atVars, ldVars>>

exOthers == <<tcVars, rlVars, ovVars, lnVars, psVars, dfVars, atVars, ldVars>>

dfOthers == <<tcVars, rlVars, ovVars, lnVars, psVars, exVars, atVars, ldVars>>

atOthers == <<tcVars, rlVars, ovVars, lnVars, psVars, exVars, dfVars, ldVars>>

ldOthers == <<tcVars, rlVars, ovVars, lnVars, psVars, exVars, dfVars, atVars>>

(***************************************************************************)
(* Bounds and input sets of the TimeCode specification.                    *)
(***************************************************************************)
MaxFrame == 130

MaxHours == 2

FpsSet == {24, 25, 30, 60}

EdgeSixty == {0, 1, 59}

\* frame counts: a dense range, and the counts next to every minute and hour
\* boundary up to MaxHours
FrameCounts(fps) ==
    (0..MaxFrame)
    \cup {((h * 60 + m) * 60 + s) * fps + fr :
            h \in 0..MaxHours, m \in EdgeSixty, s \in EdgeSixty, fr \in {0, 1, fps - 1}}

\* HH<sep>MM<sep>SS<sep>FF
TCText(h, m, s, f, sep) ==
    FmtInt(h, 2) \o <<sep>> \o FmtInt(m, 2) \o <<sep>> \o FmtInt(s, 2) \o <<sep>>
    \o FmtInt(f, 2)

TextInputs ==
    {TCText(1, 2, 3, 4, sep) : sep \in {":", ";", ",", "."}}
    \cup {TCText(0, 0, 0, 75, ":"), TCText(0, 61, 61, 0, ":"),
          TCText(1, 59, 59, 99, ":"), TCText(0, 0, 59, 60, ":")}
    \cup { <<>>, <<"a", "b", "c">>, <<"x">>, <<"x", "s">>, <<"2", "s">>,
           <<"1", ".", "5", "s">>, <<"1", "m", "p", "s">>, <<"0", "3", "0">>,
           <<"1", ":", "2", ":", "3">>, <<"a", ":", "b", ":", "c", ":", "d">>,
           <<"0", "1", ":", "0", "2", ";", "0", "3", ".", "0", "4">> }

IntData(n) == [str |-> FALSE, num |-> n, text |-> <<>>]

StrData(t) == [str |-> TRUE, num |-> 0, text |-> t]

NoResults == [expFrame |-> None, impFrame |-> None, expStr |-> None, impStr |-> None]

TCIdle ==
    /\ tc_fps = 0
    /\ tc_data = IntData(0)
    /\ tc_exp = None
    /\ tc_imp = None
    /\ tc_out = NoResults

TCInit ==
    /\ tc_fps \in FpsSet
    /\ tc_data \in {IntData(sg * n) : sg \in {1, -1}, n \in FrameCounts(tc_fps)}
                   \cup {StrData(t) : t \in TextInputs}
    /\ tc_exp = None
    /\ tc_imp = None
    /\ tc_out = NoResults

\* exporter: TimeCode(data, fps)
ExpConstruct ==
    /\ tc_exp = None
    /\ tc_exp' = Some(IF tc_data.str THEN Exp_init_str(tc_data.text, tc_fps)
                      ELSE Exp_init_int(tc_data.num, tc_fps))
    /\ UNCHANGED <<tc_fps, tc_data, tc_imp, tc_out, tcOthers>>

\* importer: TimeCode(data, fps)
ImpConstruct ==
    /\ tc_imp = None
    /\ tc_imp' = Some(IF tc_data.str THEN Imp_init_str(tc_data.text, tc_fps)
                      ELSE Imp_init_int(tc_data.num, tc_fps))
    /\ UNCHANGED <<tc_fps, tc_data, tc_exp, tc_out, tcOthers>>

\* exporter: as_frame() on the constructed object
ExpAsFrame ==
    /\ tc_exp # None /\ tc_exp[1].exc = "" /\ tc_out.expFrame = None
    /\ tc_out' = [tc_out EXCEPT !.expFrame = Some(Exp_as_frame(tc_exp[1].tc))]
    /\ UNCHANGED <<tc_fps, tc_data, tc_exp, tc_imp, tcOthers>>

\* importer: as_frame() on the constructed object
ImpAsFrame ==
    /\ tc_imp # None /\ tc_imp[1].exc = "" /\ tc_out.impFrame = None
    /\ tc_out' = [tc_out EXCEPT !.impFrame = Some(Imp_as_frame(tc_imp[1].tc))]
    /\ UNCHANGED <<tc_fps, tc_data, tc_exp, tc_imp, tcOthers>>

\* exporter: str() of the constructed object
ExpStr ==
    /\ tc_exp # None /\ tc_exp[1].exc = "" /\ tc_out.expStr = None
    /\ tc_out' = [tc_out EXCEPT !.expStr = Some(Exp_str(tc_exp[1].tc))]
    /\ UNCHANGED <<tc_fps, tc_data, tc_exp, tc_imp, tcOthers>>

\* importer: str() of the constructed object
ImpStr ==
    /\ tc_imp # None /\ tc_imp[1].exc = "" /\ tc_out.impStr = None
    /\ tc_out' = [tc_out EXCEPT !.impStr = Some(Imp_str(tc_imp[1].tc))]
    /\ UNCHANGED <<tc_fps, tc_data, tc_exp, tc_imp, tcOthers>>

TCNext == ExpConstruct \/ ImpConstruct \/ ExpAsFrame \/ ImpAsFrame \/ ExpStr \/ ImpStr

(***************************************************************************)
(* Claims about TimeCode.                                                  *)
(***************************************************************************)
AllNonPositive(t) == t.hours <= 0 /\ t.minutes <= 0 /\ t.seconds <= 0 /\ t.frame <= 0

AllZero(t) == t.hours = 0 /\ t.minutes = 0 /\ t.seconds = 0 /\ t.frame = 0

\* C1: for a non-negative frame count f and fps in {24, 25, 30, 60},
\* as_frame(from_frame(f, fps)) = f, in the exporter's and in the importer's
\* TimeCode.
C1_RoundTrip ==
    (~tc_data.str /\ tc_data.num >= 0) =>
        /\ tc_out.expFrame # None => tc_out.expFrame[1] = tc_data.num
        /\ tc_out.impFrame # None => tc_out.impFrame[1] = tc_data.num

\* a count of more than an hour has gone through both classes
C1_Witness ==
    /\ ~tc_data.str
    /\ tc_data.num > 60 * 60 * tc_fps + 60 * tc_fps
    /\ tc_out.expFrame # None
    /\ tc_out.impFrame # None

\* C8: for n > 0, from_frame(-n, fps) has four fields that are all <= 0 and
\* its string form is the string form of from_frame(n, fps), in the exporter's
\* and in the importer's TimeCode.
C8_NegativeShowsAbsolute ==
    (~tc_data.str /\ tc_data.num < 0) =>
        /\ tc_exp # None => AllNonPositive(tc_exp[1].tc)
        /\ tc_imp # None => AllNonPositive(tc_imp[1].tc)
        /\ tc_out.expStr # None =>
              tc_out.expStr[1] = Exp_str(Exp_init_int(-tc_data.num, tc_fps).tc)
        /\ tc_out.impStr # None =>
              tc_out.impStr[1] = Imp_str(Imp_init_int(-tc_data.num, tc_fps).tc)

\* a 4-field timecode delimited by colons, semicolons, commas or periods
IsDelimitedTimecode(text) ==
    LET parts == SplitChar(ReplaceChar(ReplaceChar(ReplaceChar(text, ";", ":"),
                                                   ",", ":"), ".", ":"), ":")
    IN  Len(parts) = 4 /\ \A i \in 1..4 : IntOk(parts[i])

\* a text in none of the accepted forms
Unparseable(text) ==
    /\ ~EndsWith(Lower(text), <<"s">>)
    /\ ~IsDigit(text)
    /\ ~IsDelimitedTimecode(text)

ZeroWithDiagnostic(o) == o.exc = "" /\ o.diag /\ AllZero(o.tc)

\* C9: constructing a TimeCode from a text in none of the accepted forms
\* never raises: it emits a diagnostic and yields hours, minutes, seconds and
\* frame all zero.
C9_UnparseableYieldsZero ==
    (tc_data.str /\ Unparseable(tc_data.text)) =>
        /\ tc_exp # None => ZeroWithDiagnostic(tc_exp[1])
        /\ tc_imp # None => ZeroWithDiagnostic(tc_imp[1])

\* the text with every semicolon, comma and period made a colon
ColonForm(text) == ReplaceChar(ReplaceChar(ReplaceChar(text, ";", ":"), ",", ":"), ".", ":")

\* C22: a TimeCode made from a 4-field timecode text delimited only by
\* semicolons, only by commas or only by periods (no colon in it) is the
\* TimeCode made from the colon-delimited text with the same four fields.
C22_DelimitersEquivalent ==
    (tc_data.str /\ IsDelimitedTimecode(tc_data.text) /\ ~Contains(tc_data.text, <<":">>)) =>
        /\ tc_exp # None => tc_exp[1] = Exp_init_str(ColonForm(tc_data.text), tc_fps)
        /\ tc_imp # None => tc_imp[1] = Imp_init_str(ColonForm(tc_data.text), tc_fps)

\* the count of the absolute field values, negated exactly when hours < 0
SignedByHours(t) ==
    IF t.hours < 0
    THEN -(((Abs(t.hours) * 60 + Abs(t.minutes)) * 60 + Abs(t.seconds)) * t.fps + Abs(t.frame))
    ELSE ((Abs(t.hours) * 60 + Abs(t.minutes)) * 60 + Abs(t.seconds)) * t.fps + Abs(t.frame)

\* C23: as_frame returns ((|hours|*60 + |minutes|)*60 + |seconds|)*fps +
\* |frame|, negated exactly when hours < 0, in the exporter's and in the
\* importer's TimeCode, so that for a negative count -n shorter than one
\* hour both return the same value for from_frame(-n).
C23_SignFromHoursOnly ==
    /\ tc_out.expFrame # None => tc_out.expFrame[1] = SignedByHours(tc_exp[1].tc)
    /\ tc_out.impFrame # None => tc_out.impFrame[1] = SignedByHours(tc_imp[1].tc)
    /\ (/\ ~tc_data.str /\ tc_data.num < 0 /\ -tc_data.num < 60 * 60 * tc_fps
        /\ tc_out.expFrame # None /\ tc_out.impFrame # None) =>
            tc_out.expFrame = tc_out.impFrame

\* HH:MM:SS:FF, four fields of digits between colons
IsColonTimecode(text) ==
    /\ Len(SplitChar(text, ":")) = 4
    /\ \A i \in 1..4 : IsDigit(SplitChar(text, ":")[i])

\* ((HH*60 + MM)*60 + SS)*fps + FF of the fields read
FieldsCount(parts, fps) ==
    ((DigitsToNat(parts[1], 0) * 60 + DigitsToNat(parts[2], 0)) * 60
     + DigitsToNat(parts[3], 0)) * fps + DigitsToNat(parts[4], 0)

InRange(t) ==
    /\ 0 <= t.frame /\ t.frame < t.fps
    /\ 0 <= t.seconds /\ t.seconds < 60
    /\ 0 <= t.minutes /\ t.minutes < 60
    /\ 0 <= t.hours

\* C24: a TimeCode made from colon-form text HH:MM:SS:FF with non-negative
\* fields, some possibly out of range, has 0 <= frame < fps, 0 <= seconds < 60
\* and 0 <= minutes < 60 and denotes the frame count
\* ((HH*60 + MM)*60 + SS)*fps + FF of the text.
C24_ColonTextNormalized ==
    (tc_data.str /\ IsColonTimecode(tc_data.text)) =>
        /\ tc_exp # None =>
              /\ tc_exp[1].exc = "" /\ InRange(tc_exp[1].tc)
              /\ Exp_as_frame(tc_exp[1].tc)
                     = FieldsCount(SplitChar(tc_data.text, ":"), tc_fps)
        /\ tc_imp # None =>
              /\ tc_imp[1].exc = "" /\ InRange(tc_imp[1].tc)
              /\ Imp_as_frame(tc_imp[1].tc)
                     = FieldsCount(SplitChar(tc_data.text, ":"), tc_fps)
        /\ tc_out.expFrame # None =>
              tc_out.expFrame[1] = FieldsCount(SplitChar(tc_data.text, ":"), tc_fps)
        /\ tc_out.impFrame # None =>
              tc_out.impFrame[1] = FieldsCount(SplitChar(tc_data.text, ":"), tc_fps)

\* FF=75 at 30 fps has been read by both classes as 2 seconds and 15 frames
C24_Witness ==
    /\ tc_data.str /\ tc_data.text = TCText(0, 0, 0, 75, ":") /\ tc_fps = 30
    /\ tc_exp # None /\ tc_exp[1].tc.seconds = 2 /\ tc_exp[1].tc.frame = 15
    /\ tc_imp # None /\ tc_imp[1].tc.seconds = 2 /\ tc_imp[1].tc.frame = 15
    /\ tc_out.expFrame = Some(75) /\ tc_out.impFrame = Some(75)

(***************************************************************************)
(* sanitize_reel_name (exporter).                                          *)
(***************************************************************************)
CMX3600ReelLen == 8

GVGReelLen == 6

CMX340ReelLen == 3

S_AX == <<"A", "X">>

S_001 == <<"0", "0", "1">>

\* c.isalnum() or c in '_-'
LegalReelChars ==
    Range(UpperChars) \cup Range(LowerChars) \cup Range(DigitChars) \cup {"_", "-"}

OrAX(s) == IF s = <<>> THEN S_AX ELSE s

\* GVG names cut at the CMX 3600 width
sanitize_reel_name_mut(name, format_type) ==
    LET n == FilterSeq(name, LegalReelChars)
    IN  IF format_type = "CMX340"
        THEN (IF IsDigit(n) THEN ZFill(Prefix(n, CMX340ReelLen), CMX340ReelLen)
              ELSE S_001)
        ELSE OrAX(Prefix(n, CMX3600ReelLen))

sanitize_reel_name(name, format_type) ==
    LET n == FilterSeq(name, LegalReelChars)
    IN  IF format_type = "CMX340"
        THEN (IF IsDigit(n) THEN ZFill(Prefix(n, CMX340ReelLen), CMX340ReelLen)
              ELSE S_001)
        ELSE IF format_type = "GVG" THEN OrAX(Prefix(n, GVGReelLen))
        ELSE IF format_type = "CMX3600" THEN OrAX(Prefix(n, CMX3600ReelLen))
        ELSE OrAX(Prefix(n, CMX3600ReelLen))

Formats == {"CMX3600", "OPENSHOT", "GVG", "CMX340"}

MaxNameLen == 9

ReelAlphabet == {"A", "7", "/"}

S_CamA1Raw == <<"C", "a", "m", " ", "A", "/", "1", "!">>

S_CamA1 == <<"C", "a", "m", "A", "1">>

ReelNames ==
    UNION {[1..n -> ReelAlphabet] : n \in 0..MaxNameLen} \cup {S_CamA1Raw}

RLIdle == rl_name = <<>> /\ rl_format = "" /\ rl_out = None

RLInit == rl_name \in ReelNames /\ rl_format = "" /\ rl_out = None

Sanitize ==
    /\ rl_out = None
    /\ \E f \in Formats :
          /\ rl_format' = f
          /\ rl_out' = Some(sanitize_reel_name(rl_name, f))
    /\ UNCHANGED <<rl_name, rlOthers>>

RLNext == Sanitize

\* the name without the characters that are not alphanumeric, '_' or '-'
Stripped(name) == FilterSeq(name, LegalReelChars)

TruncatedTo(name, w) == Prefix(Stripped(name), w)

ThreeDigits(s) == Len(s) = 3 /\ IsDigit(s)

\* C6 as stated: after removing the illegal characters the result is the first
\* 8 characters (CMX3600), the first 6 (GVG), or 3 decimal digits that are
\* "001" when the stripped name is not numeric (CMX340); "Cam A/1!" gives
\* "CamA1" and "001"; the result is never empty.
C6_AsStated ==
    rl_out # None =>
        /\ rl_format = "CMX3600" => rl_out[1] = TruncatedTo(rl_name, 8)
        /\ rl_format = "GVG" => rl_out[1] = TruncatedTo(rl_name, 6)
        /\ rl_format = "CMX340" =>
              /\ ThreeDigits(rl_out[1])
              /\ ~IsDigit(Stripped(rl_name)) => rl_out[1] = S_001
        /\ (rl_name = S_CamA1Raw /\ rl_format = "CMX3600") => rl_out[1] = S_CamA1
        /\ (rl_name = S_CamA1Raw /\ rl_format = "CMX340") => rl_out[1] = S_001
        /\ rl_out[1] # <<>>

\* C6 (amended): as stated, except that for CMX3600 and GVG a name with no
\* legal character gives "AX" instead of its (empty) truncation.
C6_Sanitized ==
    rl_out # None =>
        /\ rl_format = "CMX3600" => rl_out[1] = OrAX(TruncatedTo(rl_name, 8))
        /\ rl_format = "GVG" => rl_out[1] = OrAX(TruncatedTo(rl_name, 6))
        /\ rl_format = "CMX340" =>
              /\ ThreeDigits(rl_out[1])
              /\ ~IsDigit(Stripped(rl_name)) => rl_out[1] = S_001
        /\ (rl_name = S_CamA1Raw /\ rl_format = "CMX3600") => rl_out[1] = S_CamA1
        /\ (rl_name = S_CamA1Raw /\ rl_format = "CMX340") => rl_out[1] = S_001
        /\ rl_out[1] # <<>>

\* a name longer than 6 legal characters, with illegal ones, sanitized for GVG
C6_Witness ==
    /\ rl_out # None
    /\ rl_format = "GVG"
    /\ Len(Stripped(rl_name)) > 6
    /\ Stripped(rl_name) # rl_name

(***************************************************************************)
(* EditList.overlap_test (importer).  An edit is kept here by its record   *)
(* timecodes; edit_test is the event at place ov_test of edits, and the    *)
(* loop stops when it reaches that event.                                  *)
(***************************************************************************)
DefaultFps == 25

MaxRec == 3

MaxEdits == 3

RecInterval(a, b) ==
    [recIn |-> Imp_init_int(a, DefaultFps).tc, recOut |-> Imp_init_int(b, DefaultFps).tc]

\* one pass of the loop body: the four comparisons
OverlapsOne(edit, edit_test) ==
    LET recIn == Imp_as_frame(edit_test.recIn)
        recOut == Imp_as_frame(edit_test.recOut)
        recIn_other == Imp_as_frame(edit.recIn)
        recOut_other == Imp_as_frame(edit.recOut)
    IN  \/ recIn_other < recIn /\ recIn < recOut_other
        \/ recIn_other < recOut /\ recOut < recOut_other
        \/ recIn < recIn_other /\ recIn_other < recOut
        \/ recIn < recOut_other /\ recOut_other < recOut

overlap_test(edits, k) == \E j \in 1..(k - 1) : OverlapsOne(edits[j], edits[k])

OVIdle == ov_edits = <<>> /\ ov_test = 0 /\ ov_result = None

OVInit == OVIdle

\* an event with a well-formed record range is appended to edits
OvAppend ==
    /\ ov_result = None
    /\ Len(ov_edits) < MaxEdits
    /\ \E a \in 0..MaxRec, b \in 0..MaxRec :
          /\ a < b
          /\ ov_edits' = Append(ov_edits, RecInterval(a, b))
    /\ UNCHANGED <<ov_test, ov_result, ovOthers>>

\* overlap_test(edits[k])
OvTest ==
    /\ ov_result = None
    /\ \E k \in 1..Len(ov_edits) :
          /\ ov_test' = k
          /\ ov_result' = Some(overlap_test(ov_edits, k))
    /\ UNCHANGED <<ov_edits, ovOthers>>

OVNext == OvAppend \/ OvTest

Min2(a, b) == IF a < b THEN a ELSE b

Max2(a, b) == IF a > b THEN a ELSE b

InteriorsMeet(e, t) ==
    Max2(Imp_as_frame(e.recIn), Imp_as_frame(t.recIn))
        < Min2(Imp_as_frame(e.recOut), Imp_as_frame(t.recOut))

\* C5: overlap_test(e) is True if and only if some event placed earlier in
\* edits has a record interval whose interior meets e's (max of the record-ins
\* < min of the record-outs): partial overlap, containment and identical
\* intervals included, intervals that only touch at an edge excluded.
C5_OverlapIffInteriorsMeet ==
    ov_result # None =>
        (ov_result[1] <=>
            \E j \in 1..(ov_test - 1) : InteriorsMeet(ov_edits[j], ov_edits[ov_test]))

(***************************************************************************)
(* The exporter's event: strips of the host timeline, EDLBlock,            *)
(* create_edl_block, create_gap_block and the event line of save_edl.      *)
(*                                                                         *)
(* A strip is a record of the attributes the exporter reads: type,         *)
(* channel, frame_final_start, frame_final_end, frame_offset_start,        *)
(* filepath (the media path: strip.filepath, strip.sound.filepath or       *)
(* directory + elements[0].filename), blend_type, blend_alpha (in          *)
(* hundredths), the transform offsets offset_x and offset_y and the crop   *)
(* margins (whole numbers >= 0; a strip without the attribute has zeros,   *)
(* which write no comment either).                                         *)
(***************************************************************************)
frame_final_duration(strip) == strip.frame_final_end - strip.frame_final_start

\* bpy.path.basename: what follows the last '/'
RECURSIVE basename(_)
basename(path) ==
    IF \E k \in 1..Len(path) : path[k] = "/" THEN basename(AfterFirst(path, "/"))
    ELSE path

\* detect_transition_type: <<transition, duration>>
detect_transition_type(strip) ==
    IF strip.type \in {"CROSS", "GAMMA_CROSS"}
    THEN <<"D", frame_final_duration(strip)>>
    ELSE IF strip.blend_type \in {"ALPHA_OVER", "CROSS"} /\ strip.blend_alpha < 100
    THEN <<"D", 0>>
    ELSE <<"C", 0>>

\* format(x, ".1f") of a whole number x >= 0
FmtOneDecimal(x) == NatToDigits(x) \o <<".", "0">>

\* format(a, ".2f") of a = h/100 with 0 <= h
FmtHundredths(h) == NatToDigits(h \div 100) \o <<".">> \o FmtInt(h % 100, 2)

S_Transform == <<"*", " ", "T", "R", "A", "N", "S", "F", "O", "R", "M", ":", " ", "X", "=">>

S_Crop == <<"*", " ", "C", "R", "O", "P", ":", " ", "L", "=">>

S_Opacity == <<"*", " ", "O", "P", "A", "C", "I", "T", "Y", ":", " ">>

S_Marker == <<"*", " ", "M", "A", "R", "K", "E", "R", ":", " ">>

S_GapBlack == <<"*", " ", "G", "A", "P", "/", "B", "L", "A", "C", "K">>

S_SourceFile == <<"*", " ", "S", "O", "U", "R", "C", "E", " ", "F", "I", "L", "E", ":", " ">>

S_FromClipName ==
    <<"*", " ", "F", "R", "O", "M", " ", "C", "L", "I", "P", " ", "N", "A", "M", "E", ":", " ">>

\* get_strip_metadata
get_strip_metadata(strip) ==
    (IF strip.offset_x # 0 \/ strip.offset_y # 0
     THEN << S_Transform \o FmtOneDecimal(strip.offset_x) \o <<" ", "Y", "=">>
             \o FmtOneDecimal(strip.offset_y) >>
     ELSE <<>>)
    \o (IF strip.crop.min_x > 0 \/ strip.crop.max_x > 0
           \/ strip.crop.min_y > 0 \/ strip.crop.max_y > 0
        THEN << S_Crop \o NatToDigits(strip.crop.min_x) \o <<" ", "R", "=">>
                \o NatToDigits(strip.crop.max_x) \o <<" ", "T", "=">>
                \o NatToDigits(strip.crop.max_y) \o <<" ", "B", "=">>
                \o NatToDigits(strip.crop.min_y) >>
        ELSE <<>>)
    \o (IF strip.blend_alpha < 100
        THEN << S_Opacity \o FmtHundredths(strip.blend_alpha) >>
        ELSE <<>>)

\* get_markers_at_frame: the names of the scene's markers at the frame
RECURSIVE get_markers_at_frame(_, _)
get_markers_at_frame(markers, frame) ==
    IF markers = <<>> THEN <<>>
    ELSE (IF Head(markers).frame = frame THEN <<Head(markers).name>> ELSE <<>>)
         \o get_markers_at_frame(Tail(markers), frame)

\* EDLBlock.__init__
EDLBlock ==
    [id |-> 0, reel |-> S_AX, channels |-> <<>>, transition |-> <<"C">>,
     transDur |-> <<>>, srcIn |-> None, srcOut |-> None, recIn |-> None,
     recOut |-> None, file |-> <<>>, comments |-> <<>>]

ExpTC(frame, fps) == Some(Exp_init_int(frame, fps).tc)

\* create_edl_block; scene is [markers, export_markers, export_metadata]
create_edl_block(strip, event_id, fps, channel_label, filepath, scene) ==
    LET tr == detect_transition_type(strip)
        markers == get_markers_at_frame(scene.markers, strip.frame_final_start)
    IN  [EDLBlock EXCEPT
            !.id = event_id,
            !.channels = channel_label,
            !.transition = <<tr[1]>>,
            !.transDur = IF tr[2] > 0 THEN FmtInt(tr[2], 3) ELSE <<>>,
            !.srcIn = ExpTC(strip.frame_offset_start, fps),
            !.srcOut = ExpTC(strip.frame_offset_start + frame_final_duration(strip), fps),
            !.recIn = ExpTC(strip.frame_final_start, fps),
            !.recOut = ExpTC(strip.frame_final_end - 1, fps),
            !.file = basename(filepath),
            !.comments =
                (IF scene.export_markers
                 THEN [k \in 1..Len(markers) |-> S_Marker \o markers[k]]
                 ELSE <<>>)
                \o (IF scene.export_metadata THEN get_strip_metadata(strip) ELSE <<>>)]

\* create_gap_block with source-out equal to source-in
create_gap_block_mut(event_id, fps, start_frame, end_frame, channel_label) ==
    [EDLBlock EXCEPT
        !.id = event_id,
        !.reel = <<"B", "L">>,
        !.channels = channel_label,
        !.srcIn = ExpTC(0, fps),
        !.srcOut = ExpTC(0, fps),
        !.recIn = ExpTC(start_frame, fps),
        !.recOut = ExpTC(end_frame - 1, fps),
        !.comments = <<S_GapBlack>>]

\* create_gap_block
create_gap_block(event_id, fps, start_frame, end_frame, channel_label) ==
    LET duration == end_frame - start_frame
    IN  [EDLBlock EXCEPT
            !.id = event_id,
            !.reel = <<"B", "L">>,
            !.channels = channel_label,
            !.srcIn = ExpTC(0, fps),
            !.srcOut = ExpTC(duration, fps),
            !.recIn = ExpTC(start_frame, fps),
            !.recOut = ExpTC(end_frame - 1, fps),
            !.comments = <<S_GapBlack>>]

Sp(n) == Repeat(" ", n)

\* the four timecodes of an event line, with sep blanks before the record pair
TimecodeColumns(block, sep) ==
    LJust(Exp_str(block.srcIn[1]), 11) \o Sp(1) \o LJust(Exp_str(block.srcOut[1]), 11)
    \o Sp(sep) \o LJust(Exp_str(block.recIn[1]), 11) \o Sp(1)
    \o LJust(Exp_str(block.recOut[1]), 11)

TransitionColumns(block) ==
    LJust(block.transition, 4) \o Sp(1) \o RJust(block.transDur, 3) \o Sp(1)

\* a reel column of 7 characters instead of 8
EventLine_mut(block, format) ==
    FmtInt(block.id, 3) \o Sp(2) \o LJust(block.reel, 7) \o Sp(1)
    \o LJust(block.channels, 4) \o Sp(2) \o TransitionColumns(block)
    \o TimecodeColumns(block, 1)

\* save_edl: the event line of one block in the given format
EventLine(block, format) ==
    IF format = "GVG"
    THEN FmtInt(block.id, 4) \o Sp(1) \o LJust(block.reel, 6) \o Sp(1)
         \o LJust(block.channels, 4) \o Sp(2) \o TransitionColumns(block)
         \o TimecodeColumns(block, 2)
    ELSE IF format = "CMX340"
    THEN FmtInt(block.id, 3) \o Sp(2) \o LJust(block.reel, 3) \o Sp(6)
         \o LJust(block.channels, 4) \o Sp(2) \o TransitionColumns(block)
         \o TimecodeColumns(block, 1)
    ELSE FmtInt(block.id, 3) \o Sp(2) \o LJust(block.reel, 8) \o Sp(1)
         \o LJust(block.channels, 4) \o Sp(2) \o TransitionColumns(block)
         \o TimecodeColumns(block, 1)

\* save_edl: the lines of one block: the event line, the file comment, the
\* block's comments, and a blank line when any comment was written
BlockLines(block, format) ==
    <<EventLine(block, format)>>
    \o (IF block.file # <<>>
        THEN (IF format \in {"OPENSHOT", "GVG"} THEN <<S_FromClipName \o block.file>>
              ELSE IF format = "CMX3600" THEN <<S_SourceFile \o block.file>>
              ELSE <<>>)
        ELSE <<>>)
    \o block.comments
    \o (IF block.file # <<>> \/ block.comments # <<>> THEN << <<>> >> ELSE <<>>)

\* save_edl: the lines of the blocks, in order (the list is taken by halves)
RECURSIVE AllBlockLines(_, _)
AllBlockLines(blocks, format) ==
    IF blocks = <<>> THEN <<>>
    ELSE IF Len(blocks) = 1 THEN BlockLines(blocks[1], format)
    ELSE AllBlockLines(SubSeq(blocks, 1, Len(blocks) \div 2), format)
         \o AllBlockLines(SubSeq(blocks, Len(blocks) \div 2 + 1, Len(blocks)), format)

S_Title == <<"T", "I", "T", "L", "E", ":", " ">>

S_Fps == <<" ", "f", "p", "s">>

S_FcmNonDrop ==
    <<"F", "C", "M", ":", " ", "N", "O", "N", "-", "D", "R", "O", "P", " ", "F", "R", "A", "M", "E">>

S_FcmDrop == <<"F", "C", "M", ":", " ", "D", "R", "O", "P", " ", "F", "R", "A", "M", "E">>

\* save_edl: the lines of the text, before they are joined
EdlLines(blocks, title, dropframe, format, fps) ==
    (IF title # <<>>
     THEN <<S_Title \o title \o Sp(2) \o NatToDigits(fps) \o S_Fps>>
     ELSE <<>>)
    \o <<IF dropframe THEN S_FcmDrop ELSE S_FcmNonDrop>>
    \o << <<>> >>
    \o AllBlockLines(blocks, format)

\* save_edl: the text of the file
save_edl(blocks, title, dropframe, format, fps) ==
    Join(EdlLines(blocks, title, dropframe, format, fps), <<"\n">>)

(***************************************************************************)
(* The importer's event: EditDecision.                                     *)
(***************************************************************************)
TRANSITION_CUT == 0

TRANSITION_DISSOLVE == 1

TRANSITION_EFFECT == 2

TRANSITION_FADEIN == 3

TRANSITION_FADEOUT == 4

TRANSITION_WIPE == 5

TRANSITION_KEY == 6

\* TRANSITION_DICT.get(name, TRANSITION_CUT)
TransitionOf(name) ==
    IF name = <<"c">> THEN TRANSITION_CUT
    ELSE IF name = <<"d">> THEN TRANSITION_DISSOLVE
    ELSE IF name = <<"e">> THEN TRANSITION_EFFECT
    ELSE IF name = <<"f", "i">> THEN TRANSITION_FADEIN
    ELSE IF name = <<"f", "o">> THEN TRANSITION_FADEOUT
    ELSE IF name = <<"w">> THEN TRANSITION_WIPE
    ELSE IF name = <<"k">> THEN TRANSITION_KEY
    ELSE TRANSITION_CUT

EDIT_VIDEO == 2

EDIT_AUDIO == 4

EDIT_AUDIO_STEREO == 8

EDIT_VIDEO_AUDIO == 16

\* the flags EDIT_DICT gives a name (none for a name that is no key, or "none")
EditFlags(name) ==
    IF name = <<"v">> THEN {EDIT_VIDEO}
    ELSE IF name = <<"a">> THEN {EDIT_AUDIO}
    ELSE IF name = <<"a", "a">> THEN {EDIT_AUDIO_STEREO}
    ELSE IF name = <<"v", "a">> \/ name = <<"b">> THEN {EDIT_VIDEO_AUDIO}
    ELSE {}

RECURSIVE SumSet(_)
SumSet(S) == IF S = {} THEN 0 ELSE LET x == CHOOSE y \in S : TRUE IN x + SumSet(S \ {x})

\* the |= of the flags of every '/'-separated part, digits dropped
EditTypeOf(token) ==
    LET parts == SplitChar(Lower(token), "/")
    IN  SumSet(UNION {EditFlags(NoDigits(parts[k])) : k \in 1..Len(parts)})

WIPE_0 == 0

KEY_BG == 0

KEY_IN == 1

KEY_OUT == 2

FixedWidthLen == 77

\* EditDecision.__init__ before read
\* transition_duration is the int 0 until read assigns a TimeCode: None is
\* that 0, Some(tc) the TimeCode
NewEditDecision ==
    [number |-> -1, reel |-> <<>>, transition_duration |-> None, edit_type |-> 0,
     transition_type |-> TRANSITION_CUT, wipe_type |-> WIPE_0, key_type |-> KEY_IN,
     key_fade |-> FALSE, srcIn |-> None, srcOut |-> None, recIn |-> None,
     recOut |-> None, filename |-> <<>>, custom_data |-> <<>>]

OptStrip(t) == IF Strip(t) # <<>> THEN <<Strip(t)>> ELSE <<>>

\* read: the parts of a fixed-width line
FixedParts(line) ==
    <<Strip(Slice(line, 0, 3)), Strip(Slice(line, 5, 12))>>
    \o OptStrip(Slice(line, 14, 18))
    \o OptStrip(Slice(line, 20, 22))
    \o OptStrip(Slice(line, 23, 25))
    \o OptStrip(Slice(line, 27, 28))
    \o <<Strip(Slice(line, 29, 40)), Strip(Slice(line, 41, 52)),
         Strip(Slice(line, 53, 64)), Strip(Slice(line, 65, 76))>>

\* read: the parts of a line, by its length
Tokens(line) == IF Len(line) = FixedWidthLen THEN FixedParts(line) ELSE Split(line)

\* the outcome of read: the object as far as it was assigned, and the exception
ReadOutcome(edit, exc) == [edit |-> edit, exc |-> exc]

\* read: the timecode tc goes to slot k of (srcIn, srcOut, recIn, recOut)
SetTimecode(edit, k, tc) ==
    IF k = 1 THEN [edit EXCEPT !.srcIn = Some(tc)]
    ELSE IF k = 2 THEN [edit EXCEPT !.srcOut = Some(tc)]
    ELSE IF k = 3 THEN [edit EXCEPT !.recIn = Some(tc)]
    ELSE [edit EXCEPT !.recOut = Some(tc)]

\* read, the timecodes: slot k from parts[index], and the slots after it;
\* in TimecodeRead o is what TimeCode(parts[index], fps) gave
RECURSIVE ReadTimecodes(_, _, _, _, _), TimecodeRead(_, _, _, _, _, _)
ReadTimecodes(edit, parts, index, k, fps) ==
    IF k > 4 \/ index > Len(parts) THEN ReadOutcome(edit, "")
    ELSE TimecodeRead(edit, parts, index, k, fps, Imp_init_str(parts[index], fps))

TimecodeRead(edit, parts, index, k, fps, o) ==
    IF o.exc # "" THEN ReadOutcome(edit, o.exc)
    ELSE ReadTimecodes(SetTimecode(edit, k, o.tc), parts, index + 1, k + 1, fps)

DurationKinds ==
    {TRANSITION_DISSOLVE, TRANSITION_EFFECT, TRANSITION_FADEIN, TRANSITION_FADEOUT,
     TRANSITION_WIPE}

\* read, the transition duration; o is what TimeCode(parts[index], fps) gave
DurationRead(edit, o) ==
    IF o.exc # "" THEN ReadOutcome(edit, o.exc)
    ELSE ReadOutcome([edit EXCEPT !.transition_duration = Some(o.tc)], "")

\* read, from the transition duration on; index is the place of the next part
ReadDuration(edit, parts, index, fps) ==
    IF edit.transition_type \in DurationKinds /\ index <= Len(parts)
    THEN DurationRead(edit, Imp_init_str(parts[index], fps))
    ELSE ReadOutcome(edit, "")

\* read, the timecodes after the transition duration; d is what ReadDuration
\* gave and index the place of the part it began at
ReadAfterDuration(d, had_duration, parts, index, fps) ==
    IF d.exc # "" THEN d
    ELSE ReadTimecodes(d.edit, parts, IF had_duration THEN index + 1 ELSE index, 1, fps)

\* read, the key placement after a K at parts[index]: [edit, index], the
\* index moved on by one when the part is B or O
KeyPlacement(edit, parts, index) ==
    IF edit.transition_type = TRANSITION_KEY /\ index + 1 <= Len(parts)
    THEN [edit |-> [edit EXCEPT !.key_type =
                        IF Lower(parts[index + 1]) = <<"b">> THEN KEY_BG
                        ELSE IF Lower(parts[index + 1]) = <<"o">> THEN KEY_OUT
                        ELSE KEY_IN],
          index |-> IF Lower(parts[index + 1]) \in {<<"b">>, <<"o">>}
                    THEN index + 1 ELSE index,
          key |-> TRUE]
    ELSE [edit |-> edit, index |-> index, key |-> FALSE]

\* read, the fade flag after the key placement k: [edit, index], the index
\* moved on by one when the flag is there
KeyFade(k, parts) ==
    IF k.key /\ k.index + 1 <= Len(parts) /\ Lower(parts[k.index + 1]) = <<"(", "f", ")">>
    THEN [edit |-> [k.edit EXCEPT !.key_fade = TRUE], index |-> k.index + 1]
    ELSE [edit |-> k.edit, index |-> k.index]

\* read, the transition type and the wipe number from trans_str
TransitionType(edit, trans_str) ==
    [edit EXCEPT
        !.transition_type = TransitionOf(NoDigits(trans_str)),
        !.wipe_type = IF TransitionOf(NoDigits(trans_str)) = TRANSITION_WIPE
                      THEN DigitsToNat(OnlyDigits(trans_str), 0)
                      ELSE @]

\* read, after the transition part; k is [edit, index] with the index of the
\* last part read
ReadFromDuration(k, parts, fps) ==
    ReadAfterDuration(ReadDuration(k.edit, parts, k.index + 1, fps),
                      k.edit.transition_type \in DurationKinds /\ k.index + 1 <= Len(parts),
                      parts, k.index + 1, fps)

\* read, the transition part parts[index] and what follows it
ReadTransition(edit, parts, index, fps) ==
    IF index > Len(parts) THEN ReadOutcome(edit, "IndexError")
    ELSE ReadFromDuration(
            KeyFade(KeyPlacement(TransitionType(edit, Lower(parts[index])), parts, index),
                    parts),
            parts, fps)

\* read, the edit type part parts[index]
ReadEditType(edit, parts, index, fps) ==
    IF index > Len(parts) THEN ReadOutcome(edit, "IndexError")
    ELSE ReadTransition([edit EXCEPT !.edit_type = EditTypeOf(parts[index])],
                        parts, index + 1, fps)

\* read, the event number parts[1] and the reel parts[2]
ReadNumber(edit, parts, fps) ==
    IF Len(parts) < 1 THEN ReadOutcome(edit, "IndexError")
    ELSE IF ~IntOk(parts[1]) THEN ReadOutcome(edit, "ValueError")
    ELSE IF Len(parts) < 2
    THEN ReadOutcome([edit EXCEPT !.number = IntVal(parts[1])], "IndexError")
    ELSE ReadEditType([edit EXCEPT !.number = IntVal(parts[1]), !.reel = parts[2]],
                      parts, 3, fps)

\* EditDecision.read
read(edit, line, fps) == ReadNumber(edit, Tokens(line), fps)

\* EditDecision(text, fps): an exception of read is caught and printed
EditDecision(text, fps) == read(NewEditDecision, text, fps)

(***************************************************************************)
(* One event through the writer and the parser: a block is built from a    *)
(* strip (or as a gap), save_edl writes its line, and the parser reads the *)
(* line as EditList.parse hands it over: with the newline that ends it in  *)
(* the file, or without one when it is the last line of the file.          *)
(***************************************************************************)
NoCrop == [min_x |-> 0, max_x |-> 0, min_y |-> 0, max_y |-> 0]

S_ClipPath == <<"/", "m", "/", "a", ".", "m", "o", "v">>

\* a strip: filepath is a MOVIE's path, directory and elements an IMAGE's,
\* sound a SOUND's
Strip_(type, channel, start, end, offset, alpha) ==
    [type |-> type, channel |-> channel, frame_final_start |-> start,
     frame_final_end |-> end, frame_offset_start |-> offset, filepath |-> S_ClipPath,
     directory |-> <<>>, elements |-> <<>>, sound |-> [filepath |-> <<>>],
     blend_type |-> "ALPHA_OVER", blend_alpha |-> alpha, offset_x |-> 0, offset_y |-> 0,
     crop |-> NoCrop]

NoScene == [markers |-> <<>>, export_markers |-> TRUE, export_metadata |-> TRUE]

MaxLineStart == 1

LineDurations == {1, 25, 30}

LineStrips ==
    {Strip_(t, 1, st * 30, st * 30 + d, off, al) :
        t \in {"MOVIE", "CROSS"}, st \in 0..MaxLineStart, d \in LineDurations,
        off \in {0, 10}, al \in {50, 100}}

LNIdle ==
    /\ ln_fps = 0
    /\ ln_strip = Strip_("MOVIE", 1, 0, 1, 0, 100)
    /\ ln_block = None
    /\ ln_format = ""
    /\ ln_line = None
    /\ ln_edit = None

LNInit ==
    /\ ln_fps \in {25, 30}
    /\ ln_strip \in LineStrips
    /\ ln_block = None
    /\ ln_format = ""
    /\ ln_line = None
    /\ ln_edit = None

\* create_edl_block for the strip
LnCreateBlock ==
    /\ ln_block = None
    /\ \E id \in {1, 12}, label \in {<<"V">>, <<"A", "1">>} :
          ln_block' = Some(create_edl_block(ln_strip, id, ln_fps, label,
                                            ln_strip.filepath, NoScene))
    /\ UNCHANGED <<ln_fps, ln_strip, ln_format, ln_line, ln_edit, lnOthers>>

\* create_gap_block for the frames before the strip
LnCreateGap ==
    /\ ln_block = None
    /\ ln_strip.frame_final_start > 0
    /\ ln_block' = Some(create_gap_block(1, ln_fps, 0, ln_strip.frame_final_start, <<"V">>))
    /\ UNCHANGED <<ln_fps, ln_strip, ln_format, ln_line, ln_edit, lnOthers>>

\* save_edl: the event line of the block
LnSave ==
    /\ ln_block # None /\ ln_line = None
    /\ \E f \in Formats :
          /\ ln_format' = f
          /\ ln_line' = Some(EventLine(ln_block[1], f))
    /\ UNCHANGED <<ln_fps, ln_strip, ln_block, ln_edit, lnOthers>>

\* parse: a line that is not 77 long is normalized to single blanks
Normalized(raw) == IF Len(raw) # FixedWidthLen THEN Join(Split(raw), <<" ">>) ELSE raw

\* parse: the written line is read back, followed by a newline or not
LnParse ==
    /\ ln_line # None /\ ln_edit = None
    /\ \E nl \in BOOLEAN :
          ln_edit' = Some(EditDecision(
                              Normalized(ln_line[1] \o (IF nl THEN <<"\n">> ELSE <<>>)),
                              ln_fps))
    /\ UNCHANGED <<ln_fps, ln_strip, ln_block, ln_format, ln_line, lnOthers>>

LNNext == LnCreateBlock \/ LnCreateGap \/ LnSave \/ LnParse

\* the event of C3: id 1, reel "AX", channel V, a cut, at 25 fps, in CMX 3600
IsC3Event ==
    /\ ln_line # None
    /\ ln_format = "CMX3600"
    /\ ln_fps = 25
    /\ ln_block[1].id = 1
    /\ ln_block[1].reel = S_AX
    /\ ln_block[1].channels = <<"V">>
    /\ ln_block[1].transition = <<"C">>

Field(line, a, b) == Strip(Slice(line, a, b))

\* the fields of the line, each within its documented column range
FieldsInColumns(line, block) ==
    /\ Field(line, 0, 3) = <<"0", "0", "1">>
    /\ Field(line, 5, 12) = block.reel
    /\ Field(line, 14, 18) = block.channels
    /\ Field(line, 20, 22) = block.transition
    /\ Field(line, 23, 25) = <<>>
    /\ Field(line, 29, 40) = Exp_str(block.srcIn[1])
    /\ Field(line, 41, 52) = Exp_str(block.srcOut[1])
    /\ Field(line, 53, 64) = Exp_str(block.recIn[1])
    /\ Field(line, 65, 76) = Exp_str(block.recOut[1])
    /\ \A k \in 1..Len(line) :
          (k - 1) \notin (0..2) \cup (5..11) \cup (14..17) \cup (20..21) \cup (29..39)
                         \cup (41..51) \cup (53..63) \cup (65..75)
          => line[k] = " "

\* C3 as stated: the CMX 3600 line of one video event (id 1, reel "AX",
\* channel V, cut, 25 fps) is exactly 77 characters long and each field lies
\* in its column range of the fixed-width layout.
C3_AsStated ==
    IsC3Event => Len(ln_line[1]) = 77 /\ FieldsInColumns(ln_line[1], ln_block[1])

\* C3 (amended): that line is exactly 76 characters long, 77 with the newline
\* that ends it in the file, and each field lies in its column range.
C3_LineShape ==
    IsC3Event =>
        /\ Len(ln_line[1]) = 76
        /\ Len(ln_line[1] \o <<"\n">>) = 77
        /\ FieldsInColumns(ln_line[1], ln_block[1])

C3_Witness == IsC3Event /\ Exp_as_frame(ln_block[1].recIn[1]) > 0

\* C7: parsing an event line whose transition is D with a decimal duration of
\* n frames yields a dissolve of exactly n frames, by the fixed-width path and
\* by the whitespace path, for lines in the writer's layout.
C7_DissolveDuration ==
    (ln_edit # None /\ ln_block[1].transition = <<"D">> /\ ln_block[1].transDur # <<>>) =>
        /\ ln_edit[1].edit.transition_type = TRANSITION_DISSOLVE
        /\ ln_edit[1].edit.transition_duration # None
        /\ Imp_as_frame(ln_edit[1].edit.transition_duration[1])
               = DigitsToNat(ln_block[1].transDur, 0)

\* the timecode read into a slot is there and denotes the block's timecode
SameFrame(read_tc, written_tc) ==
    read_tc # None /\ Imp_as_frame(read_tc[1]) = Exp_as_frame(written_tc[1])

\* C25: for every event the writer can emit in any dialect (cut, or dissolve
\* with or without a duration value, clip or gap), EditDecision on the
\* written event line gives the same event id and the same four frame values
\* in source-in, source-out, record-in and record-out, in that order; no
\* timecode is taken as a transition duration and no timecode is left unset.
C25_EventLineRoundTrip ==
    ln_edit # None =>
        /\ ln_edit[1].exc = ""
        /\ ln_edit[1].edit.number = ln_block[1].id
        /\ SameFrame(ln_edit[1].edit.srcIn, ln_block[1].srcIn)
        /\ SameFrame(ln_edit[1].edit.srcOut, ln_block[1].srcOut)
        /\ SameFrame(ln_edit[1].edit.recIn, ln_block[1].recIn)
        /\ SameFrame(ln_edit[1].edit.recOut, ln_block[1].recOut)
        /\ ln_block[1].transDur = <<>> => ln_edit[1].edit.transition_duration = None

(***************************************************************************)
(* EditList: detect_format and parse.  A file is the list readlines()      *)
(* gives: every line ends with its newline, except possibly the last.      *)
(***************************************************************************)
S_TitleKey == <<"T", "I", "T", "L", "E", ":">>

S_FcmKey == <<"F", "C", "M", ":">>

S_DropFrame == <<"D", "R", "O", "P", " ", "F", "R", "A", "M", "E">>

S_NonDropFrame == <<"N", "O", "N", "-", "D", "R", "O", "P", " ", "F", "R", "A", "M", "E">>

S_SourceFileKey == <<"S", "O", "U", "R", "C", "E", " ", "F", "I", "L", "E", ":">>

S_FromClipNameKey == <<"F", "R", "O", "M", " ", "C", "L", "I", "P", " ", "N", "A", "M", "E", ":">>

S_MarkerKey == <<"M", "A", "R", "K", "E", "R", ":">>

StartsWithAny(s, prefixes) == \E q \in prefixes : StartsWith(s, q)

\* detect_format taking an id of 5 characters, not of 4, for GVG
DetectNumbered_gvg5(parts) ==
    IF Len(parts[1]) = 5 THEN "GVG"
    ELSE IF Len(parts[1]) = 3 /\ Len(parts) > 1
            /\ Len(parts[2]) <= 3 /\ IsDigit(parts[2])
    THEN "CMX340"
    ELSE "CMX3600"

\* detect_format without the test that the reel is numeric
DetectNumbered_mut(parts) ==
    IF Len(parts[1]) = 4 THEN "GVG"
    ELSE IF Len(parts[1]) = 3 /\ Len(parts) > 1 /\ Len(parts[2]) <= 3
    THEN "CMX340"
    ELSE "CMX3600"

\* detect_format: the verdict on a line whose first part is a number
DetectNumbered(parts) ==
    IF Len(parts[1]) = 4 THEN "GVG"
    ELSE IF Len(parts[1]) = 3 /\ Len(parts) > 1
            /\ Len(parts[2]) <= 3 /\ IsDigit(parts[2])
    THEN "CMX340"
    ELSE "CMX3600"

\* EditList.detect_format: the loop goes on to the next line after a blank,
\* comment or header line, and after a line whose first part is no number
RECURSIVE detect_format(_), DetectParts(_, _), DetectStripped(_, _)
detect_format(file_lines) ==
    IF file_lines = <<>> THEN "CMX3600"
    ELSE DetectStripped(file_lines, Strip(Head(file_lines)))

DetectStripped(file_lines, line) ==
    IF line = <<>> \/ StartsWithAny(line, {<<"*">>, <<"#">>, S_TitleKey, S_FcmKey})
    THEN detect_format(Tail(file_lines))
    ELSE DetectParts(file_lines, Split(line))

DetectParts(file_lines, parts) ==
    IF parts # <<>> /\ IsDigit(parts[1])
    THEN DetectNumbered(parts)
    ELSE detect_format(Tail(file_lines))

\* parse: the comment on the line after an event line
AttachComment(edit, next_line) ==
    IF ~StartsWith(next_line, <<"*">>) THEN edit
    ELSE IF Contains(next_line, S_SourceFileKey) \/ Contains(next_line, S_FromClipNameKey)
    THEN [edit EXCEPT !.reel = Strip(AfterFirst(next_line, ":"))]
    ELSE IF Contains(next_line, S_MarkerKey)
    THEN [edit EXCEPT !.custom_data =
             Append(@, [kind |-> "marker", name |-> Strip(AfterFirst(next_line, ":"))])]
    ELSE edit

\* parse: an event line; o is what EditDecision(line, fps) gave
AppendEdit(acc, o, file_lines, index) ==
    [acc EXCEPT
        !.edits = Append(@, IF index + 1 <= Len(file_lines)
                            THEN AttachComment(o.edit, Strip(file_lines[index + 1]))
                            ELSE o.edit),
        !.diag = IF o.exc # "" THEN Append(@, Len(acc.edits) + 1) ELSE @]

\* parse: the loop body on the normalized line; acc is [edits, title, diag]
ParseNormalized(acc, file_lines, index, fps, line) ==
    IF line = <<>> \/ StartsWithAny(line, {<<"*">>, <<"#">>}) THEN acc
    ELSE IF StartsWith(line, S_TitleKey)
    THEN [acc EXCEPT !.title = Join(Tail(Split(line)), <<" ">>)]
    ELSE IF StartsWithAny(line, {S_FcmKey, S_DropFrame, S_NonDropFrame}) THEN acc
    ELSE IF IsDigit(Head(Split(line) \o << <<>> >>))  \* parts and parts[0].isdigit()
    THEN AppendEdit(acc, EditDecision(line, fps), file_lines, index)
    ELSE acc

\* parse: the loop body on file_lines[index]
ParseLine(acc, file_lines, index, fps) ==
    ParseNormalized(acc, file_lines, index, fps, Normalized(file_lines[index]))

RECURSIVE ParseLoop(_, _, _, _)
ParseLoop(acc, file_lines, index, fps) ==
    IF index > Len(file_lines) THEN acc
    ELSE ParseLoop(ParseLine(acc, file_lines, index, fps), file_lines, index + 1, fps)

\* EditList.parse on a readable file: [edits, title, diag] when it returns
parse(title, file_lines, fps) ==
    ParseLoop([edits |-> <<>>, title |-> title, diag |-> <<>>], file_lines, 1, fps)

\* lines of the inputs
L_Cut ==
    EventLine(create_edl_block(Strip_("MOVIE", 1, 0, 25, 0, 100), 1, DefaultFps,
                               <<"V">>, S_ClipPath, NoScene), "CMX3600")

L_Free ==
    <<"0", "0", "2", " ", "A", "X", " ", "V", " ", "C", " ">>
    \o TCText(0, 0, 0, 0, ":") \o Sp(1) \o TCText(0, 0, 1, 0, ":") \o Sp(1)
    \o TCText(0, 0, 1, 0, ":") \o Sp(1) \o TCText(0, 0, 2, 0, ":")

L_NoFields == <<"0", "0", "3", " ", "A", "X">>

L_BadTimecode ==
    <<"0", "0", "4", " ", "A", "X", " ", "V", " ", "C", " ">>
    \o TCText(0, 0, 0, 0, ":") \o <<" ", "x", "x">>

L_SourceFile == S_SourceFile \o <<"a", ".", "m", "o", "v">>

L_MarkerLine == S_Marker \o <<"m", "1">>

L_Title == S_Title \o <<"t">> \o Sp(2) \o NatToDigits(DefaultFps) \o S_Fps

WellFormedLines == {L_Cut, L_Free}

MalformedLines == {L_NoFields, L_BadTimecode}

InputLines ==
    WellFormedLines \cup MalformedLines
    \cup {L_SourceFile, L_MarkerLine, S_GapBlack, L_Title, <<>>}

MaxLines == 3

\* readlines() of the text whose lines are ls, with or without a last newline
AsRead(ls, final_newline) ==
    [k \in 1..Len(ls) |->
        IF k < Len(ls) \/ final_newline THEN ls[k] \o <<"\n">> ELSE ls[k]]

Files ==
    {[readable |-> r, lines |-> AsRead(ls, nl)] :
        r \in BOOLEAN, nl \in BOOLEAN,
        ls \in UNION {[1..n -> InputLines] : n \in 0..MaxLines}}

NoFile == [readable |-> FALSE, lines |-> <<>>]

\* EditList.__init__, and the file that parse will be given
PSInit ==
    /\ ps_edits = <<>>
    /\ ps_title = <<>>
    /\ ps_detected_format = None
    /\ ps_file \in Files
    /\ ps_result = None
    /\ ps_diag = <<>>

PSIdle ==
    /\ ps_edits = <<>>
    /\ ps_title = <<>>
    /\ ps_detected_format = None
    /\ ps_file = NoFile
    /\ ps_result = None
    /\ ps_diag = <<>>

\* EditList.parse(filepath, fps), the file cannot be opened or read
ParseUnreadable ==
    /\ ps_result = None
    /\ ~ps_file.readable
    /\ ps_result' = Some(FALSE)
    /\ UNCHANGED <<ps_edits, ps_title, ps_detected_format, ps_file, ps_diag, psOthers>>

\* EditList.parse(filepath, fps), the file is read
Parse ==
    /\ ps_result = None
    /\ ps_file.readable
    /\ ps_detected_format' = Some(detect_format(ps_file.lines))
    /\ LET r == parse(ps_title, ps_file.lines, DefaultFps)
       IN  /\ ps_edits' = r.edits
           /\ ps_title' = r.title
           /\ ps_diag' = r.diag
           /\ ps_result' = Some(Len(r.edits) # 0)
    /\ UNCHANGED <<ps_file, psOthers>>

PSNext == ParseUnreadable \/ Parse

\* the file's lines without their newlines
Bare(lines) == [k \in 1..Len(lines) |-> RStrip(lines[k])]

\* a malformed event line between two well-formed event lines
IsC2File ==
    /\ ps_result # None
    /\ ps_file.readable
    /\ Len(ps_file.lines) = 3
    /\ Bare(ps_file.lines)[1] \in WellFormedLines
    /\ Bare(ps_file.lines)[2] \in MalformedLines
    /\ Bare(ps_file.lines)[3] \in WellFormedLines

\* C2: a file with one malformed event line between two well-formed event
\* lines gives exactly 2 entries in edits (none for the malformed line), a
\* diagnostic for the bad line, and parse returns True.
C2_MalformedLineSkipped ==
    IsC2File =>
        /\ Len(ps_edits) = 2
        /\ ps_diag # <<>>
        /\ ps_result = Some(TRUE)

\* the events read without an exception
ParsedEvents == Len(ps_edits) - Len(ps_diag)

\* C10: parse returns False exactly when the file cannot be opened or read or
\* no event was parsed from it, and True whenever at least one event was
\* parsed; an error in a line or a field never makes it return False alone.
C10_FalseOnlyForFileLevel ==
    ps_result # None =>
        (ps_result = Some(FALSE) <=> (~ps_file.readable \/ ParsedEvents = 0))

\* the comment lines, stripped, that follow line i of the file one after
\* the other: the run ends at the first line that is no comment
RECURSIVE CommentRun(_, _)
CommentRun(lines, i) ==
    IF i + 1 <= Len(lines) /\ StartsWith(Strip(lines[i + 1]), <<"*">>)
    THEN <<Strip(lines[i + 1])>> \o CommentRun(lines, i + 1)
    ELSE <<>>

NamesSource(comment) ==
    Contains(comment, S_SourceFileKey) \/ Contains(comment, S_FromClipNameKey)

NamesMarker(comment) == ~NamesSource(comment) /\ Contains(comment, S_MarkerKey)

IsOtherComment(comment) == ~NamesSource(comment) /\ ~Contains(comment, S_MarkerKey)

\* what stands after the first colon of each comment
NamesIn(comments) == [k \in 1..Len(comments) |-> Strip(AfterFirst(comments[k], ":"))]

MarkerRecords(names) == [k \in 1..Len(names) |-> [kind |-> "marker", name |-> names[k]]]

IsMarkerRecord(item) == item.kind = "marker"

IsNoMarkerRecord(item) == ~IsMarkerRecord(item)

SameItems(s, t) == Len(s) = Len(t) /\ \A k \in 1..Len(s) : s[k] = t[k]

\* a file read whose first line is a well-formed event line: ps_edits[1] is
\* the event of that line
EventLineFirst ==
    /\ ps_result # None
    /\ ps_file.readable
    /\ Len(ps_file.lines) >= 1
    /\ Bare(ps_file.lines)[1] \in WellFormedLines
    /\ Len(ps_edits) >= 1

RunSources == SelectSeq(CommentRun(ps_file.lines, 1), NamesSource)

RunMarkers == SelectSeq(CommentRun(ps_file.lines, 1), NamesMarker)

RunOthers == SelectSeq(CommentRun(ps_file.lines, 1), IsOtherComment)

\* C19: when an event line is followed by a run of consecutive comment
\* lines, every line of the run is associated with the event: a SOURCE FILE:
\* or FROM CLIP NAME: comment anywhere in the run overwrites the reel, and
\* each MARKER: comment of the run appends a marker record; so an event line,
\* then "* SOURCE FILE: ...", then "* MARKER: ..." gives both.
C19_CommentRunAssociated ==
    EventLineFirst =>
        /\ RunSources # <<>> =>
              ps_edits[1].reel = NamesIn(RunSources)[Len(RunSources)]
        /\ SameItems(SelectSeq(ps_edits[1].custom_data, IsMarkerRecord),
                     MarkerRecords(NamesIn(RunMarkers)))

\* C20: a comment line following an event that is neither SOURCE FILE: /
\* FROM CLIP NAME: nor MARKER: (as "* GAP/BLACK") is stored verbatim on that
\* event, and the stored comments keep their file order.
C20_OtherCommentsStored ==
    EventLineFirst =>
        SameItems(SelectSeq(ps_edits[1].custom_data, IsNoMarkerRecord), RunOthers)

(***************************************************************************)
(* One EditList given a second file: parse is called again on the object   *)
(* that has already parsed a file.                                         *)
(***************************************************************************)
ReparseLines == {L_Cut, L_Free, L_Title, L_MarkerLine}

MaxReparseLines == 2

ReparseFiles ==
    {[readable |-> r, lines |-> AsRead(ls, TRUE)] :
        r \in BOOLEAN, ls \in UNION {[1..n -> ReparseLines] : n \in 0..MaxReparseLines}}

PSReparseInit ==
    /\ ps_edits = <<>>
    /\ ps_title = <<>>
    /\ ps_detected_format = None
    /\ ps_file \in ReparseFiles
    /\ ps_result = None
    /\ ps_diag = <<>>

\* parse on a readable file, from the state the object is in: what it
\* leaves in [edits, title, diag]
Parsed(file) == parse(ps_title, file.lines, DefaultFps)

\* EditList.parse(filepath, fps) called again, with another file
Reparse ==
    /\ ps_result # None
    /\ \E file \in ReparseFiles :
          /\ ps_file' = file
          /\ IF file.readable
             THEN /\ ps_detected_format' = Some(detect_format(file.lines))
                  /\ ps_edits' = Parsed(file).edits
                  /\ ps_title' = Parsed(file).title
                  /\ ps_diag' = Parsed(file).diag
                  /\ ps_result' = Some(Len(Parsed(file).edits) # 0)
             ELSE /\ ps_result' = Some(FALSE)
                  /\ UNCHANGED <<ps_edits, ps_title, ps_detected_format, ps_diag>>
    /\ UNCHANGED psOthers

PSReparseNext == ParseUnreadable \/ Parse \/ Reparse

\* what a new EditList holds after parsing the file
Fresh == parse(<<>>, ps_file.lines, DefaultFps)

\* C29: after a successful parse, the edits, title and detected_format of
\* the EditList depend only on the content of the file just parsed: when the
\* same EditList parses a second file, no edit and no title of the first
\* file remains (the title is empty when the second file has no TITLE line).
C29_OnlyTheFileJustParsed ==
    ps_result = Some(TRUE) =>
        /\ ps_edits = Fresh.edits
        /\ ps_title = Fresh.title
        /\ ps_detected_format = Some(detect_format(ps_file.lines))

(***************************************************************************)
(* detect_format on its own: the lines given, and the value returned.      *)
(***************************************************************************)
D_Gvg == <<"0", "0", "0", "1", " ", "A", "X">>

D_Cmx340 == <<"0", "0", "1", " ", "0", "0", "2">>

D_Cmx3600 == <<"0", "0", "1", " ", "A", "X">>

D_LongReel == <<"0", "0", "1", " ", "0", "0", "0", "2">>

D_NoReel == <<"0", "0", "1">>

D_ShortId == <<"0", "1", " ", "0", "0", "2">>

D_Word == <<"A", "X", " ", "0", "0", "0", "1">>

D_Indented == <<" ", " ">> \o D_Cmx340

D_Hash == <<"#", " ", "0", "0", "0", "1">>

DetectLines ==
    {D_Gvg, D_Cmx340, D_Cmx3600, D_LongReel, D_NoReel, D_ShortId, D_Word, D_Indented,
     D_Hash, S_GapBlack, L_Title, S_FcmNonDrop, <<>>}

MaxDetectLines == 3

DFIdle == df_lines = <<>> /\ df_out = None

DFInit ==
    /\ df_lines \in {AsRead(ls, TRUE) :
                        ls \in UNION {[1..n -> DetectLines] : n \in 0..MaxDetectLines}}
    /\ df_out = None

\* EditList.detect_format(file_lines)
DetectFormat ==
    /\ df_out = None
    /\ df_out' = Some(detect_format(df_lines))
    /\ UNCHANGED <<df_lines, dfOthers>>

DFNext == DetectFormat

\* the least element of a set of numbers
MinOf(S) == CHOOSE i \in S : \A j \in S : i <= j

\* the line, stripped, is blank, a comment or a TITLE:/FCM: header
IsSkippedLine(line) ==
    \/ Strip(line) = <<>>
    \/ \E q \in {<<"*">>, <<"#">>, S_TitleKey, S_FcmKey} : StartsWith(Strip(line), q)

\* the line's leading token is a number
HasNumericId(line) == Split(line) # <<>> /\ IsDigit(Split(line)[1])

\* the format the id and the reel token of the line stand for
VerdictOf(line) ==
    IF ~HasNumericId(line) THEN "CMX3600"
    ELSE IF Len(Split(line)[1]) = 4 THEN "GVG"
    ELSE IF /\ Len(Split(line)[1]) = 3
            /\ Len(Split(line)) >= 2
            /\ IsDigit(Split(line)[2])
            /\ Len(Split(line)[2]) <= 3
    THEN "CMX340"
    ELSE "CMX3600"

\* the places of the lines that are no blank, comment or header
DecidingLines == {i \in DOMAIN df_lines : ~IsSkippedLine(df_lines[i])}

\* of these, the places of the lines that begin with a number
NumberedLines == {i \in DecidingLines : HasNumericId(df_lines[i])}

KeyLess(a, b, by_channel) ==
    \/ a.frame_final_start < b.frame_final_start
    \/ /\ by_channel
       /\ a.frame_final_start = b.frame_final_start
       /\ a.channel < b.channel

\* sorted() keeps the order of equal keys
RECURSIVE InsertSorted(_, _, _)
InsertSorted(sorted, a, by_channel) ==
    IF sorted = <<>> THEN <<a>>
    ELSE IF KeyLess(a, Head(sorted), by_channel) THEN <<a>> \o sorted
    ELSE <<Head(sorted)>> \o InsertSorted(Tail(sorted), a, by_channel)

\* no strip of the list goes strictly before the one in front of it
InOrder(strips, by_channel) ==
    \A k \in 1..(Len(strips) - 1) : ~KeyLess(strips[k + 1], strips[k], by_channel)

\* sorted(strips, key=...); a list already in order is returned as it is
RECURSIVE Sorted(_, _)
Sorted(strips, by_channel) ==
    IF InOrder(strips, by_channel) THEN strips
    ELSE InsertSorted(Sorted(SubSeq(strips, 1, Len(strips) - 1), by_channel),
                      strips[Len(strips)], by_channel)

\* get_sorted_strips
get_sorted_strips(scene) == Sorted(scene.strips, TRUE)

MaxEventIds == 999

MaxReelCounter == 999

IsVideoStrip(a, scene) ==
    a.channel = scene.edl_video_channel /\ a.type \in {"MOVIE", "IMAGE"}

\* strip.filepath if strip.type == 'MOVIE' else strip.directory + strip.elements[0].filename
VideoPath(a) ==
    IF a.type = "MOVIE" THEN a.filepath ELSE a.directory \o a.elements[1].filename

ALabel(n) == <<"A">> \o NatToDigits(n)

\* audio_channels.index(ch) + 1
RECURSIVE IndexOf(_, _)
IndexOf(channels, ch) ==
    IF Head(channels) = ch THEN 1 ELSE 1 + IndexOf(Tail(channels), ch)

\* write_edl before the dialect's branch; filepath is the local of that name
NewExport(scene, strips) ==
    [blocks |-> <<>>, event_id |-> 1, reel_counter |-> 1,
     warnings |-> IF Len(strips) > MaxEventIds THEN <<"events exceed 999">> ELSE <<>>,
     last_end |-> scene.frame_start, filepath |-> None, raised |-> ""]

\* edl.append(block) without event_id += 1
Emit_mut(acc, block) ==
    [acc EXCEPT !.blocks = Append(@, block)]

\* edl.append(block); event_id += 1
Emit(acc, block) ==
    [acc EXCEPT !.blocks = Append(@, block), !.event_id = @ + 1]

\* block.reel = sanitize_reel_name(block.reel, format)
SanitizedReel(block, format) == [block EXCEPT !.reel = sanitize_reel_name(@, format)]

\* the OPENSHOT loop body: the two gap events before the strip
OpenShotGap(acc, a, fps) ==
    IF a.frame_final_start > acc.last_end
    THEN Emit(Emit(acc, create_gap_block(acc.event_id, fps, acc.last_end,
                                         a.frame_final_start, <<"V">>)),
              create_gap_block(acc.event_id + 1, fps, acc.last_end,
                               a.frame_final_start, <<"A">>))
    ELSE acc

\* the OPENSHOT loop body giving both events of a MOVIE the same id
OpenShotClip_mut(acc, a, fps, scene) ==
    IF a.type = "MOVIE"
    THEN Emit(Emit(acc, create_edl_block(a, acc.event_id, fps, <<"V">>, a.filepath, scene)),
              create_edl_block(a, acc.event_id, fps, <<"A">>, a.filepath, scene))
    ELSE IF a.type = "IMAGE"
    THEN Emit(acc, create_edl_block(a, acc.event_id, fps, <<"V">>,
                                    a.directory \o a.elements[1].filename, scene))
    ELSE IF a.type = "SOUND"
    THEN Emit(acc, create_edl_block(a, acc.event_id, fps, <<"A">>, a.sound.filepath, scene))
    ELSE acc

\* the OPENSHOT loop body: the events of the strip
OpenShotClip(acc, a, fps, scene) ==
    IF a.type = "MOVIE"
    THEN Emit(Emit(acc, create_edl_block(a, acc.event_id, fps, <<"V">>, a.filepath, scene)),
              create_edl_block(a, acc.event_id + 1, fps, <<"A">>, a.filepath, scene))
    ELSE IF a.type = "IMAGE"
    THEN Emit(acc, create_edl_block(a, acc.event_id, fps, <<"V">>,
                                    a.directory \o a.elements[1].filename, scene))
    ELSE IF a.type = "SOUND"
    THEN Emit(acc, create_edl_block(a, acc.event_id, fps, <<"A">>, a.sound.filepath, scene))
    ELSE acc

\* the OPENSHOT loop body
OpenShotStep(acc, a, fps, scene) ==
    [OpenShotClip(OpenShotGap(acc, a, fps), a, fps, scene)
        EXCEPT !.last_end = Max2(@, a.frame_final_end)]

\* the CMX340 counter without the wrap
Cmx340Emit_mut(acc, block) ==
    [acc EXCEPT
        !.blocks = Append(@, [block EXCEPT
                                !.reel = sanitize_reel_name(FmtInt(acc.reel_counter, 3),
                                                            "CMX340")]),
        !.event_id = @ + 1,
        !.reel_counter = @ + 1]

\* an event of the CMX340 branch: the reel is the rolling counter
Cmx340Emit(acc, block) ==
    [acc EXCEPT
        !.blocks = Append(@, [block EXCEPT
                                !.reel = sanitize_reel_name(FmtInt(acc.reel_counter, 3),
                                                            "CMX340")]),
        !.event_id = @ + 1,
        !.reel_counter = IF @ + 1 > MaxReelCounter THEN 1 ELSE @ + 1]

Cmx340VideoStep(acc, a, fps, scene) ==
    IF IsVideoStrip(a, scene)
    THEN Cmx340Emit(acc, create_edl_block(a, acc.event_id, fps, <<"V">>, VideoPath(a), scene))
    ELSE acc

\* the inner loop of the CMX340 audio branch, for the track idx (from 0) on ch
Cmx340AudioStep(acc, a, fps, scene, idx, ch) ==
    IF a.channel = ch /\ a.type = "SOUND"
    THEN Cmx340Emit(acc, create_edl_block(a, acc.event_id, fps, ALabel(idx + 1),
                                          a.sound.filepath, scene))
    ELSE acc

GvgVideoStep(acc, a, fps, scene) ==
    IF IsVideoStrip(a, scene)
    THEN Emit(acc, SanitizedReel(create_edl_block(a, acc.event_id, fps, <<"V">>,
                                                  VideoPath(a), scene), "GVG"))
    ELSE acc

GvgAudioStep(acc, a, fps, scene, audio_channels) ==
    IF (\E k \in 1..Len(audio_channels) : audio_channels[k] = a.channel) /\ a.type = "SOUND"
    THEN Emit(acc, SanitizedReel(create_edl_block(a, acc.event_id, fps,
                                                  ALabel(IndexOf(audio_channels, a.channel)),
                                                  a.sound.filepath, scene), "GVG"))
    ELSE acc

\* the CMX3600 video loop body, the gap branch: filepath is assigned here only
Cmx3600VideoGap(acc, a, fps) ==
    IF a.frame_final_start > acc.last_end
    THEN [Emit(acc, create_gap_block(acc.event_id, fps, acc.last_end,
                                     a.frame_final_start, <<"V">>))
             EXCEPT !.filepath = Some(VideoPath(a))]
    ELSE acc

\* the CMX3600 video loop body after the gap branch: reading filepath
\* unassigned raises UnboundLocalError
Cmx3600VideoClip(acc, a, fps, scene) ==
    IF acc.filepath = None THEN [acc EXCEPT !.raised = "UnboundLocalError"]
    ELSE [Emit(acc, SanitizedReel(create_edl_block(a, acc.event_id, fps, <<"V">>,
                                                   acc.filepath[1], scene), "CMX3600"))
             EXCEPT !.last_end = a.frame_final_end]

\* the CMX3600 video loop body
Cmx3600VideoStep(acc, a, fps, scene) ==
    Cmx3600VideoClip(Cmx3600VideoGap(acc, a, fps), a, fps, scene)

\* the CMX3600 audio loop body, for the track track_idx (from 1): the gap
Cmx3600AudioGap(acc, a, fps, track_idx) ==
    IF a.frame_final_start > acc.last_end
    THEN Emit(acc, create_gap_block(acc.event_id, fps, acc.last_end,
                                    a.frame_final_start, ALabel(track_idx)))
    ELSE acc

\* the CMX3600 audio loop body: the event of the strip
Cmx3600AudioClip(acc, a, fps, scene, track_idx) ==
    [Emit(acc, SanitizedReel(create_edl_block(a, acc.event_id, fps, ALabel(track_idx),
                                              a.sound.filepath, scene), "CMX3600"))
        EXCEPT !.last_end = a.frame_final_end]

\* the CMX3600 audio loop body
Cmx3600AudioStep(acc, a, fps, scene, track_idx) ==
    Cmx3600AudioClip(Cmx3600AudioGap(acc, a, fps, track_idx), a, fps, scene, track_idx)

\* one pass of a loop of write_edl over the strips; an exception ends the call
Step(acc, a, fps, scene, kind, arg) ==
    CASE kind = "OPENSHOT" -> OpenShotStep(acc, a, fps, scene)
      [] kind = "CMX340_V" -> Cmx340VideoStep(acc, a, fps, scene)
      [] kind = "CMX340_A" -> Cmx340AudioStep(acc, a, fps, scene, arg[1], arg[2])
      [] kind = "GVG_V" -> GvgVideoStep(acc, a, fps, scene)
      [] kind = "GVG_A" -> GvgAudioStep(acc, a, fps, scene, arg)
      [] kind = "CMX3600_V" -> Cmx3600VideoStep(acc, a, fps, scene)
      [] kind = "CMX3600_A" -> Cmx3600AudioStep(acc, a, fps, scene, arg)

\* for strip in strips: the loop body on each strip in turn, until an
\* exception leaves the loop (the list is taken by halves)
RECURSIVE Loop(_, _, _, _, _, _)
Loop(acc, strips, fps, scene, kind, arg) ==
    IF strips = <<>> \/ acc.raised # "" THEN acc
    ELSE IF Len(strips) = 1 THEN Step(acc, strips[1], fps, scene, kind, arg)
    ELSE Loop(Loop(acc, SubSeq(strips, 1, Len(strips) \div 2), fps, scene, kind, arg),
              SubSeq(strips, Len(strips) \div 2 + 1, Len(strips)), fps, scene, kind, arg)

\* for idx, ch in enumerate(audio_channels[:2]): the tracks from k on
RECURSIVE Cmx340Tracks(_, _, _, _, _, _)
Cmx340Tracks(acc, strips, fps, scene, audio_channels, k) ==
    IF k > Len(audio_channels) \/ k > 2 THEN acc
    ELSE Cmx340Tracks(Loop(acc, strips, fps, scene, "CMX340_A", <<k - 1, audio_channels[k]>>),
                      strips, fps, scene, audio_channels, k + 1)

\* for track_idx, ch in enumerate(audio_channels, 1): the tracks from k on
RECURSIVE Cmx3600Tracks(_, _, _, _, _, _)
Cmx3600Tracks(acc, strips, fps, scene, audio_channels, k) ==
    IF k > Len(audio_channels) \/ acc.raised # "" THEN acc
    ELSE Cmx3600Tracks(
            Loop([acc EXCEPT !.last_end = scene.frame_start],
                 SelectSeq(strips, LAMBDA a : a.channel = audio_channels[k] /\ a.type = "SOUND"),
                 fps, scene, "CMX3600_A", k),
            strips, fps, scene, audio_channels, k + 1)

\* the strips of the video channel
VideoStripsOf(strips, scene) == SelectSeq(strips, LAMBDA a : IsVideoStrip(a, scene))

\* the SOUND strips of the audio channels
AudioStripsOf(strips, audio_channels) ==
    SelectSeq(strips, LAMBDA a :
        /\ \E k \in 1..Len(audio_channels) : audio_channels[k] = a.channel
        /\ a.type = "SOUND")

\* the warning recorded from 2 tracks on
Cmx340Warned_mut(acc, audio_channels) ==
    IF Len(audio_channels) > 1
    THEN [acc EXCEPT !.warnings = Append(@, "CMX 340: 2 audio tracks")]
    ELSE acc

\* len(audio_channels) > 2: the CMX340 warning
Cmx340Warned(acc, audio_channels) ==
    IF Len(audio_channels) > 2
    THEN [acc EXCEPT !.warnings = Append(@, "CMX 340: 2 audio tracks")]
    ELSE acc

\* write_edl, the branch of the dialect; strips is get_sorted_strips(scene)
Branch(strips, scene, fps, edl_format, audio_channels) ==
    IF edl_format = "OPENSHOT"
    THEN Loop(NewExport(scene, strips),
              Sorted(VideoStripsOf(strips, scene) \o AudioStripsOf(strips, audio_channels),
                     FALSE),
              fps, scene, "OPENSHOT", <<>>)
    ELSE IF edl_format = "CMX340"
    THEN Cmx340Tracks(Cmx340Warned(Loop(NewExport(scene, strips), strips, fps, scene,
                                        "CMX340_V", <<>>),
                                   audio_channels),
                      strips, fps, scene, audio_channels, 1)
    ELSE IF edl_format = "GVG"
    THEN Loop(Loop(NewExport(scene, strips), strips, fps, scene, "GVG_V", <<>>),
              strips, fps, scene, "GVG_A", audio_channels)
    ELSE Cmx3600Tracks(Loop(NewExport(scene, strips), VideoStripsOf(strips, scene), fps,
                            scene, "CMX3600_V", <<>>),
                       strips, fps, scene, audio_channels, 1)

\* write_edl up to the writing of the file
BuildEdl(scene, fps, edl_format) ==
    Branch(get_sorted_strips(scene), scene, fps, edl_format, scene.edl_audio_tracks)

\* write_edl, the end: the file is written unless an exception left the call;
\* its text is save_edl(), kept here as the lines that save_edl joins
Finish(r, title, edl_format, fps) ==
    [raised |-> r.raised, blocks |-> r.blocks, warnings |-> r.warnings,
     file |-> IF r.raised = "" THEN Some(EdlLines(r.blocks, title, FALSE, edl_format, fps))
              ELSE None]

\* write_edl: the exception that left it ("" when it returned FINISHED), the
\* events appended, the warnings, and the lines of the text written to the file
write_edl(scene, fps, title, edl_format) ==
    Finish(BuildEdl(scene, fps, edl_format), title, edl_format, fps)

\* the scenes of the export
MediaName(letter) == <<"/", "m", "/", letter, ".", "m", "o", "v">>

MovieStrip(channel, start, end, letter) ==
    [Strip_("MOVIE", channel, start, end, 0, 100) EXCEPT !.filepath = MediaName(letter)]

ImageStrip(channel, start, end, letter) ==
    [Strip_("IMAGE", channel, start, end, 0, 100) EXCEPT
        !.filepath = <<>>,
        !.directory = <<"/", "i", "/">>,
        !.elements = <<[filename |-> <<letter, ".", "p", "n", "g">>]>>]

SoundStrip(channel, start, end, letter) ==
    [Strip_("SOUND", channel, start, end, 0, 100) EXCEPT
        !.filepath = <<>>,
        !.sound = [filepath |-> <<"/", "s", "/", letter, ".", "w", "a", "v">>]]

ExportStrips ==
    {MovieStrip(1, 0, 2, "a"), ImageStrip(1, 2, 4, "b"), MovieStrip(1, 3, 6, "c"),
     SoundStrip(2, 0, 2, "e"), SoundStrip(2, 3, 5, "f"), SoundStrip(3, 0, 2, "g"),
     MovieStrip(2, 0, 2, "h")}

MaxStrips == 3

TrackLists == {<<>>, <<2, 3>>, <<3, 4, 5, 6, 2>>}

SceneOptions ==
    {NoScene,
     [markers |-> <<[frame |-> 0, name |-> <<"m", "1">>]>>, export_markers |-> TRUE,
      export_metadata |-> FALSE]}

S_OutTitle == <<"o", "u", "t">>

\* context.scene
Scene ==
    [strips |-> sc_strips, frame_start |-> sc_frame_start,
     edl_video_channel |-> sc_video_channel, edl_audio_tracks |-> sc_audio_tracks,
     markers |-> sc_options.markers, export_markers |-> sc_options.export_markers,
     export_metadata |-> sc_options.export_metadata]

EXIdle ==
    /\ sc_strips = <<>>
    /\ sc_frame_start = 1
    /\ sc_video_channel = 1
    /\ sc_audio_tracks = <<>>
    /\ sc_options = NoScene
    /\ sc_fps = 0
    /\ ex_format = ""
    /\ ex_result = None

EXInit ==
    /\ sc_strips \in UNION {[1..n -> ExportStrips] : n \in 0..MaxStrips}
    /\ sc_frame_start \in {0, 1}
    /\ sc_video_channel = 1
    /\ sc_audio_tracks \in TrackLists
    /\ sc_options \in SceneOptions
    /\ sc_fps = DefaultFps
    /\ ex_format = ""
    /\ ex_result = None

\* write_edl(context, output_filepath, edl_format)
WriteEdl ==
    /\ ex_result = None
    /\ \E f \in Formats :
          /\ ex_format' = f
          /\ ex_result' = Some(write_edl(Scene, sc_fps, S_OutTitle, f))
    /\ UNCHANGED <<sc_strips, sc_frame_start, sc_video_channel, sc_audio_tracks,
                   sc_options, sc_fps, exOthers>>

EXNext == WriteEdl

\* the strips of the CMX3600 video loop, in its order
VideoStrips == VideoStripsOf(get_sorted_strips(Scene), Scene)

\* the events the call wrote
Written == IF ex_result[1].file = None THEN <<>> ELSE ex_result[1].blocks

IsGapEvent(block) == block.reel = <<"B", "L">>

\* the place in the written events of the k-th event with channel V that is
\* no gap event, 0 when there is none
RECURSIVE NthClip(_, _, _)
NthClip(blocks, k, from) ==
    IF from > Len(blocks) THEN 0
    ELSE IF blocks[from].channels = <<"V">> /\ ~IsGapEvent(blocks[from])
    THEN IF k = 1 THEN from ELSE NthClip(blocks, k - 1, from + 1)
    ELSE NthClip(blocks, k, from + 1)

\* the record range of the event is the frames [e, s)
RecordRange(block, e, s) ==
    /\ Exp_as_frame(block.recIn[1]) = e
    /\ Exp_as_frame(block.recOut[1]) = s - 1

\* C4: in CMX 3600 export, between the events of two consecutive strips of
\* the video channel, the earlier ending at e and the later starting at s,
\* there is exactly one gap event, with reel BL and the record range [e, s),
\* when s > e, and no gap event when s <= e.
C4_GapBetweenConsecutive ==
    (ex_result # None /\ ex_format = "CMX3600") =>
        \A k \in 1..(Len(VideoStrips) - 1) :
            LET e == VideoStrips[k].frame_final_end
                s == VideoStrips[k + 1].frame_final_start
                i == NthClip(Written, k, 1)
                j == NthClip(Written, k + 1, 1)
            IN  /\ i # 0
                /\ j # 0
                /\ IF s > e
                   THEN /\ j = i + 2
                        /\ IsGapEvent(Written[i + 1])
                        /\ RecordRange(Written[i + 1], e, s)
                   ELSE j = i + 1

\* the events the call appended to the list, written to the file or not
Appended == ex_result[1].blocks

\* C12: in every dialect the events write_edl appends to the list, clip
\* events and gap events alike, carry the ids 1, 2, ..., n in list order: the
\* k-th event has id k, no id is skipped or repeated.
C12_DenseIds ==
    ex_result # None => \A k \in 1..Len(Appended) : Appended[k].id = k

\* an OpenShot-style export with gap events and the two events of a MOVIE
C12_Witness ==
    /\ ex_result # None
    /\ ex_format = "OPENSHOT"
    /\ Len(Appended) >= 4
    /\ IsGapEvent(Appended[1])
    /\ \E k \in 2..Len(Appended) : ~IsGapEvent(Appended[k]) /\ Appended[k].id = k

\* the event is the one the strip gives on the channel
FromStrip(block, a, channel_label) ==
    /\ ~IsGapEvent(block)
    /\ block.channels = channel_label
    /\ block.file = basename(a.filepath)
    /\ RecordRange(block, a.frame_final_start, a.frame_final_end)

\* C13: in OpenShot-style export each MOVIE strip emits two sibling events,
\* one with channel V and one with channel A, and both carry the same id.
C13_MoviePairSharesId ==
    (ex_result # None /\ ex_format = "OPENSHOT") =>
        \A n \in DOMAIN sc_strips :
            (sc_strips[n].type = "MOVIE" /\ IsVideoStrip(sc_strips[n], Scene)) =>
                \E k \in 1..(Len(Appended) - 1) :
                    /\ FromStrip(Appended[k], sc_strips[n], <<"V">>)
                    /\ FromStrip(Appended[k + 1], sc_strips[n], <<"A">>)
                    /\ Appended[k].id = Appended[k + 1].id

\* C13, amended: in OpenShot-style export each MOVIE strip of the video
\* channel emits two sibling events, next to each other in the list, the
\* first with channel V and the second with channel A, and the id of the
\* second is the id of the first plus one.
C13_MoviePairConsecutiveIds ==
    (ex_result # None /\ ex_format = "OPENSHOT") =>
        \A n \in DOMAIN sc_strips :
            (sc_strips[n].type = "MOVIE" /\ IsVideoStrip(sc_strips[n], Scene)) =>
                \E k \in 1..(Len(Appended) - 1) :
                    /\ FromStrip(Appended[k], sc_strips[n], <<"V">>)
                    /\ FromStrip(Appended[k + 1], sc_strips[n], <<"A">>)
                    /\ Appended[k + 1].id = Appended[k].id + 1

\* an OpenShot-style export of a scene with a MOVIE strip on the video
\* channel and a SOUND strip on an audio track
C13_Witness ==
    /\ ex_result # None
    /\ ex_format = "OPENSHOT"
    /\ \E n \in DOMAIN sc_strips :
          sc_strips[n].type = "MOVIE" /\ IsVideoStrip(sc_strips[n], Scene)
    /\ \E k \in 1..Len(Appended) :
          Appended[k].channels = <<"A">> /\ ~IsGapEvent(Appended[k])
                                        /\ Appended[k].file = <<"e", ".", "w", "a", "v">>

\* the event was synthesized for a gap: it carries the GAP/BLACK comment
IsSynthesized(block) == block.comments = <<S_GapBlack>>

\* C14: every gap event synthesized by the writer has reel "BL" and a
\* zero-length source range (source-in equals source-out), whatever the
\* length of the gap.
C14_GapZeroLengthSource ==
    ex_result # None =>
        \A k \in 1..Len(Appended) :
            IsSynthesized(Appended[k]) =>
                /\ Appended[k].reel = <<"B", "L">>
                /\ Exp_as_frame(Appended[k].srcIn[1]) = Exp_as_frame(Appended[k].srcOut[1])

\* the number of frames of the event's record range
RecordLength(block) == Exp_as_frame(block.recOut[1]) + 1 - Exp_as_frame(block.recIn[1])

\* C14, amended: every gap event synthesized by the writer has reel "BL" and
\* a source range that starts at frame 0 and is as long as the gap: source-in
\* is 0 and source-out is the number of frames of the gap, which is never 0.
C14_GapSourceSpansGap ==
    ex_result # None =>
        \A k \in 1..Len(Appended) :
            IsSynthesized(Appended[k]) =>
                /\ Appended[k].reel = <<"B", "L">>
                /\ Exp_as_frame(Appended[k].srcIn[1]) = 0
                /\ Exp_as_frame(Appended[k].srcOut[1]) = RecordLength(Appended[k])
                /\ RecordLength(Appended[k]) > 0

\* a written gap event of more than one frame
C14_Witness ==
    /\ ex_result # None
    /\ \E k \in 1..Len(Written) :
          IsSynthesized(Written[k]) /\ RecordLength(Written[k]) > 1

\* C15: CMX 3600 export writes events for one video track and at most 4
\* audio tracks: whatever the number of configured audio tracks, no event
\* with an audio channel label beyond A4 is written.
C15_AtMostFourAudioTracks ==
    (ex_result # None /\ ex_format = "CMX3600") =>
        \A k \in 1..Len(Written) :
            Written[k].channels \in {<<"V">>} \cup {ALabel(n) : n \in 1..4}

\* the places in the scene of the SOUND strips on the channel
SoundStripsOn(ch) ==
    {n \in DOMAIN sc_strips : sc_strips[n].type = "SOUND" /\ sc_strips[n].channel = ch}

\* the places in the written list of the events with the channel label
EventsLabelled(channel_label) ==
    {k \in 1..Len(Written) : Written[k].channels = channel_label}

\* the warnings of the call that say the text
WarningsSaying(text) ==
    {k \in 1..Len(ex_result[1].warnings) : ex_result[1].warnings[k] = text}

\* C16: in CMX 340 export with more than 2 configured audio tracks, audio
\* events are written only for the first 2 tracks (labels A1 and A2), the
\* strips on the other tracks give no event, exactly one warning is recorded
\* and the export completes; with 2 tracks or fewer there is no such warning.
C16_TwoAudioTracks ==
    (ex_result # None /\ ex_format = "CMX340") =>
        /\ ex_result[1].raised = "" /\ ex_result[1].file # None
        /\ \A k \in 1..Len(Written) :
              Written[k].channels \in {<<"V">>, ALabel(1), ALabel(2)}
        /\ \A t \in 1..2 :
              Cardinality(EventsLabelled(ALabel(t))) =
                  IF t <= Len(sc_audio_tracks)
                  THEN Cardinality(SoundStripsOn(sc_audio_tracks[t])) ELSE 0
        /\ Cardinality(WarningsSaying("CMX 340: 2 audio tracks")) =
              IF Len(sc_audio_tracks) > 2 THEN 1 ELSE 0

\* a CMX 340 export of 5 tracks, with a SOUND strip on the first track and one
\* on the fifth
C16_Witness ==
    /\ ex_result # None
    /\ ex_format = "CMX340"
    /\ Len(sc_audio_tracks) = 5
    /\ SoundStripsOn(sc_audio_tracks[1]) # {}
    /\ SoundStripsOn(sc_audio_tracks[5]) # {}
    /\ EventsLabelled(ALabel(1)) # {}

\* C26: in CMX 3600 export every MOVIE/IMAGE strip of the video channel
\* gives an event whose file reference is the base name of that strip's own
\* media path, whether or not a gap event was inserted before it, and the
\* export never fails because a strip has no gap before it.
C26_OwnFileReference ==
    (ex_result # None /\ ex_format = "CMX3600") =>
        /\ ex_result[1].raised = ""
        /\ \A k \in 1..Len(VideoStrips) :
              /\ NthClip(Written, k, 1) # 0
              /\ Written[NthClip(Written, k, 1)].file = basename(VideoPath(VideoStrips[k]))

(***************************************************************************)
(* write_edl on long timelines: runs of strips that follow one another,    *)
(* up to one strip more than the 999 of the event and reel counters.       *)
(***************************************************************************)
\* a timeline of n one-frame strips from frame 1 on, the first two thirds of
\* them MOVIE strips on channel 1 and the others SOUND strips on channel 2
RunOf(n) ==
    [k \in 1..n |-> IF 3 * k > 2 * n THEN SoundStrip(2, k, k + 1, "e")
                    ELSE MovieStrip(1, k, k + 1, "a")]

MaxRun == 30

RunLengths == (0..MaxRun) \cup {MaxEventIds, MaxEventIds + 1}

RunOptions == [markers |-> <<>>, export_markers |-> FALSE, export_metadata |-> FALSE]

EXRunInit ==
    /\ sc_strips \in {RunOf(n) : n \in RunLengths}
    /\ sc_frame_start = 0
    /\ sc_video_channel = 1
    /\ sc_audio_tracks = <<2>>
    /\ sc_options = RunOptions
    /\ sc_fps = DefaultFps
    /\ ex_format = ""
    /\ ex_result = None

\* C17: in CMX 340 export the reel of the k-th emitted event, video events
\* first and audio events after them, is the 3-digit zero-padded value
\* ((k-1) mod 999) + 1: the counter starts at 001, goes up by one per event
\* and wraps from 999 back to 001, never giving 000 or a value above 999.
C17_RollingReel ==
    (ex_result # None /\ ex_format = "CMX340") =>
        /\ \A k \in 1..Len(Appended) :
              Appended[k].reel = FmtInt(((k - 1) % 999) + 1, 3)
        /\ \A i, j \in 1..Len(Appended) :
              (Appended[i].channels = <<"V">> /\ Appended[j].channels # <<"V">>) => i < j

\* a CMX 340 export whose 999th event has reel 999 and whose 1000th event,
\* an audio event, has reel 001
C17_Witness ==
    /\ ex_result # None
    /\ ex_format = "CMX340"
    /\ Len(Appended) = 1000
    /\ Appended[999].reel = <<"9", "9", "9">>
    /\ Appended[1000].reel = <<"0", "0", "1">>
    /\ Appended[1000].channels = ALabel(1)

\* C18: write_edl records the 999-event warning exactly when the number of
\* events it emits (gap events and both events of a MOVIE pair included) is
\* above 999 and the dialect has a 3-digit id field (CMX 3600, CMX 340,
\* OpenShot-style); it records none for GVG, and the export always completes.
C18_WarningIffOver999Events ==
    ex_result # None =>
        /\ ex_result[1].raised = "" /\ ex_result[1].file # None
        /\ (WarningsSaying("events exceed 999") # {})
              <=> (Len(Appended) > 999 /\ ex_format \in {"CMX3600", "CMX340", "OPENSHOT"})

(***************************************************************************)
(* The written file given to detect_format.                                *)
(***************************************************************************)
MaxDetectStrips == 2

EXDetectInit ==
    /\ sc_strips \in UNION {[1..n -> ExportStrips] : n \in 0..MaxDetectStrips}
    /\ sc_frame_start \in {0, 1}
    /\ sc_video_channel = 1
    /\ sc_audio_tracks \in TrackLists
    /\ sc_options \in SceneOptions
    /\ sc_fps = DefaultFps
    /\ ex_format = ""
    /\ ex_result = None
    /\ df_lines = <<>>
    /\ df_out = None

\* readlines() of the text that joins the lines with newlines: a last line
\* that is empty leaves the line before it its newline and is no line itself
ReadLines(lines) ==
    IF lines # <<>> /\ lines[Len(lines)] = <<>>
    THEN AsRead(SubSeq(lines, 1, Len(lines) - 1), TRUE)
    ELSE AsRead(lines, FALSE)

\* EditList.detect_format on the lines read from the file write_edl wrote
DetectWritten ==
    /\ ex_result # None /\ ex_result[1].file # None
    /\ df_out = None
    /\ df_lines' = ReadLines(ex_result[1].file[1])
    /\ df_out' = Some(detect_format(ReadLines(ex_result[1].file[1])))
    /\ UNCHANGED <<tcVars, rlVars, ovVars, lnVars, psVars, exVars, atVars, ldVars>>

EXDetectNext == WriteEdl \/ DetectWritten

MaxChannel == 32

DefaultTrackChannel == 2

FallbackChannel == 2

\* next((ch for ch in range(1, 33) if ch not in used), 2)
FirstUnused(used) ==
    IF (1..MaxChannel) \ used = {} THEN FallbackChannel
    ELSE MinOf((1..MaxChannel) \ used)

\* collection.add(): the new item is in the collection, with the default
\* of its channel property
Added(tracks) == Append(tracks, DefaultTrackChannel)

\* exporter SEQUENCER_OT_add_audio_track.execute: the tracks after it
Exp_add_audio_track(video_channel, tracks) ==
    [Added(tracks) EXCEPT
        ![Len(tracks) + 1] = FirstUnused({video_channel} \cup Range(Added(tracks)))]

\* importer SEQUENCER_OT_add_audio_track.execute: the tracks after it
Imp_add_audio_track(video_channel, tracks) ==
    [Added(tracks) EXCEPT
        ![Len(tracks) + 1] = FirstUnused({video_channel} \cup Range(Added(tracks)))]

\* collection.remove(index), index from 0
Removed(tracks, index) ==
    [k \in 1..(Len(tracks) - 1) |-> IF k <= index THEN tracks[k] ELSE tracks[k + 1]]

MaxOps == 4

\* the tracks 3, 4, ..., 32: what 30 adds make of an empty collection when
\* the video channel is 1
ThirtyTracks == [k \in 1..30 |-> k + 2]

ATIdle ==
    /\ at_side = ""
    /\ at_video_channel = 1
    /\ at_tracks = <<>>
    /\ at_last = None
    /\ at_ops = 0

\* the collections as registered: the importer's empty, the exporter's empty
\* or filled by init_defaults; and a collection after many adds
ATInit ==
    /\ at_side \in {"export", "import"}
    /\ at_video_channel \in {1, 2, 3}
    /\ at_tracks \in {<<>>} \cup (IF at_side = "export" THEN {<<2, 3, 4, 5>>} ELSE {})
                     \cup (IF at_video_channel = 1 THEN {ThirtyTracks} ELSE {})
    /\ at_last = None
    /\ at_ops = 0

ExpAddAudioTrack ==
    /\ at_side = "export" /\ at_ops < MaxOps
    /\ at_tracks' = Exp_add_audio_track(at_video_channel, at_tracks)
    /\ at_last' = Some([before |-> at_tracks, channel |-> at_tracks'[Len(at_tracks')]])
    /\ at_ops' = at_ops + 1
    /\ UNCHANGED <<at_side, at_video_channel, atOthers>>

ImpAddAudioTrack ==
    /\ at_side = "import" /\ at_ops < MaxOps
    /\ at_tracks' = Imp_add_audio_track(at_video_channel, at_tracks)
    /\ at_last' = Some([before |-> at_tracks, channel |-> at_tracks'[Len(at_tracks')]])
    /\ at_ops' = at_ops + 1
    /\ UNCHANGED <<at_side, at_video_channel, atOthers>>

\* the indices the panel's remove buttons give: the first and the last track
RemoveIndices == {0, Len(at_tracks) - 1} \cap (0..(Len(at_tracks) - 1))

ExpRemoveAudioTrack ==
    /\ at_side = "export" /\ at_ops < MaxOps
    /\ \E index \in RemoveIndices : at_tracks' = Removed(at_tracks, index)
    /\ at_ops' = at_ops + 1
    /\ UNCHANGED <<at_side, at_video_channel, at_last, atOthers>>

ImpRemoveAudioTrack ==
    /\ at_side = "import" /\ at_ops < MaxOps
    /\ \E index \in RemoveIndices : at_tracks' = Removed(at_tracks, index)
    /\ at_ops' = at_ops + 1
    /\ UNCHANGED <<at_side, at_video_channel, at_last, atOthers>>

ATNext == ExpAddAudioTrack \/ ImpAddAudioTrack \/ ExpRemoveAudioTrack \/ ImpRemoveAudioTrack

\* the channels of 1..32 used neither by the video channel nor by a track
\* that existed before the last add
FreeBefore == (1..MaxChannel) \ ({at_video_channel} \cup Range(at_last[1].before))

\* C30: after any sequence of add-audio-track and remove-audio-track
\* operations, each add gives the new track the lowest channel of 1..32 that
\* is used neither by the video channel nor by an audio track that existed
\* before the add; channel 2 is the fallback when no channel of 1..32 is free.
C30_LowestFreeChannel ==
    at_last # None =>
        at_last[1].channel = (IF FreeBefore = {} THEN 2 ELSE MinOf(FreeBefore))

(***************************************************************************)
(* load_edl.  The scene's sequence editor is the list of strips the call   *)
(* made; whether a reel has a file, and whether Blender can load it, is    *)
(* given with the call.                                                    *)
(***************************************************************************)
BLACK_ID == {<<"b", "w">>, <<"b", "l">>, <<"b", "l", "k">>, <<"b", "l", "a", "c", "k">>}

IsBlack(edit) == Lower(edit.reel) \in BLACK_ID

\* n & f # 0, f a power of two
HasFlag(n, f) == (n \div f) % 2 = 1

IsVideoEdit(edit) ==
    HasFlag(edit.edit_type, EDIT_VIDEO) \/ HasFlag(edit.edit_type, EDIT_VIDEO_AUDIO)

IsAudioEdit(edit) ==
    \/ HasFlag(edit.edit_type, EDIT_AUDIO)
    \/ HasFlag(edit.edit_type, EDIT_AUDIO_STEREO)
    \/ HasFlag(edit.edit_type, EDIT_VIDEO_AUDIO)

\* int(timecode) of a slot that holds a TimeCode
FrameOf(slot) == Imp_as_frame(slot[1])

\* the key of TRANSITION_DICT for the transition type
TransKey(transition_type) ==
    CASE transition_type = TRANSITION_CUT -> <<"c">>
      [] transition_type = TRANSITION_DISSOLVE -> <<"d">>
      [] transition_type = TRANSITION_EFFECT -> <<"e">>
      [] transition_type = TRANSITION_FADEIN -> <<"f", "i">>
      [] transition_type = TRANSITION_FADEOUT -> <<"f", "o">>
      [] transition_type = TRANSITION_WIPE -> <<"w">>
      [] transition_type = TRANSITION_KEY -> <<"k">>
      [] OTHER -> <<"c", "u", "t">>

\* EditDecision.as_name
as_name(edit) ==
    FmtInt(edit.number, 3) \o <<"_">> \o edit.reel \o <<"_">> \o TransKey(edit.transition_type)

\* strip.frame_duration of a loaded movie or sound: the length of the media
MediaLength == 1000

\* a strip as sequences.new_movie, new_sound or new_effect returns it
NewStrip(type, name, channel, frame_start, frame_end) ==
    [type |-> type, name |-> name, channel |-> channel, frame_start |-> frame_start,
     frame_end |-> frame_end, animation_offset_start |-> 0, animation_offset_end |-> 0,
     frame_offset_end |-> 0, fade |-> FALSE]

\* the reel has an entry in reel_files
HasFile(in, edit) == in.media # "missing"

\* reel_offsets.get(edit.reel, 0)
ReelOffset(in, edit) == IF HasFile(in, edit) THEN in.reel_offset ELSE 0

SrcDuration(edit) == FrameOf(edit.srcOut) - FrameOf(edit.srcIn)

RecDuration(edit) == FrameOf(edit.recOut) - FrameOf(edit.recIn)

\* a "skipping" diagnostic for the edit at place k
Skipped(acc, k, why) == [acc EXCEPT !.skipped = Append(@, [edit |-> k, why |-> why])]

\* edit.custom_data = [strip], strip the one at place s of the strips
HoldsStrip(acc, k, s) ==
    [acc EXCEPT !.edits[k].custom_data = <<[kind |-> "strip", name |-> acc.strips[s].name]>>,
                !.made[k] = s]

\* the video pass, a black edit: a COLOR strip over the record range
LoadBlack(acc, k, in) ==
    [HoldsStrip([acc EXCEPT !.strips = Append(@,
                    NewStrip("COLOR", <<"B", "l", "a", "c", "k">>, in.video_channel,
                             FrameOf(acc.edits[k].recIn) + in.global_offset,
                             FrameOf(acc.edits[k].recOut) + in.global_offset + 1))],
                k, Len(acc.strips) + 1)
        EXCEPT !.prev = k]

\* the strip new_movie gives for the edit, trimmed
MovieOf(edit, in) ==
    [NewStrip("MOVIE", edit.reel, in.video_channel,
              FrameOf(edit.recIn) + in.global_offset, 0)
        EXCEPT !.animation_offset_start = FrameOf(edit.srcIn) + ReelOffset(in, edit),
               !.animation_offset_end =
                   MediaLength - (FrameOf(edit.srcOut) + ReelOffset(in, edit))]

\* prev_edit.custom_data holds something that is no strip: reading its
\* .type raises AttributeError inside the try
PrevHoldsNoStrip(acc) ==
    /\ acc.prev # 0
    /\ acc.edits[acc.prev].custom_data # <<>>
    /\ acc.made[acc.prev] = 0

PrevHoldsMovie(acc) ==
    /\ acc.prev # 0
    /\ acc.made[acc.prev] # 0
    /\ acc.strips[acc.made[acc.prev]].type \in {"MOVIE", "IMAGE"}

IsDissolve(edit) ==
    edit.transition_type = TRANSITION_DISSOLVE /\ edit.transition_duration # None

\* the dissolve: the previous clip is extended and the strip s is faded in
Dissolved(acc, k, s) ==
    [acc EXCEPT
        !.strips = [i \in 1..Len(acc.strips) |->
            IF i = s THEN [acc.strips[i] EXCEPT !.fade = TRUE]
            ELSE IF PrevHoldsMovie(acc) /\ i = acc.made[acc.prev]
            THEN [acc.strips[i] EXCEPT !.frame_offset_end =
                     Max2(0, @ - FrameOf(acc.edits[k].transition_duration))]
            ELSE acc.strips[i]]]

\* the wipe effect between the previous clip and the strip
Wiped(acc, k, in) ==
    IF PrevHoldsMovie(acc)
    THEN [acc EXCEPT !.strips = Append(@,
             NewStrip("WIPE", <<"W", "i", "p", "e">>, in.video_channel + 1,
                      FrameOf(acc.edits[k].recIn) + in.global_offset, 0))]
    ELSE acc

\* the video pass after new_movie gave the strip at place s: the
\* transitions, then the name and custom_data
AfterMovie(acc, k, s, in) ==
    IF (IsDissolve(acc.edits[k]) \/ acc.edits[k].transition_type = TRANSITION_WIPE)
       /\ PrevHoldsNoStrip(acc)
    THEN [acc EXCEPT !.prev = k]
    ELSE [HoldsStrip(
            [(IF IsDissolve(acc.edits[k]) THEN Dissolved(acc, k, s)
              ELSE IF acc.edits[k].transition_type = TRANSITION_WIPE THEN Wiped(acc, k, in)
              ELSE acc)
                EXCEPT !.strips[s].name = as_name(acc.edits[k])],
            k, s)
          EXCEPT !.prev = k]

\* the video pass, a clip edit
LoadMovie(acc, k, in) ==
    IF ~HasFile(in, acc.edits[k]) THEN acc
    ELSE IF in.media # "ok" THEN [acc EXCEPT !.prev = k]
    ELSE AfterMovie([acc EXCEPT !.strips = Append(@, MovieOf(acc.edits[k], in))],
                    k, Len(acc.strips) + 1, in)

\* the first pass, the loop body for the edit at place k
LoadVideoStep(acc, k, in) ==
    IF ~IsVideoEdit(acc.edits[k]) THEN acc
    ELSE IF SrcDuration(acc.edits[k]) <= 0 THEN Skipped(acc, k, "source")
    ELSE IF RecDuration(acc.edits[k]) <= 0 THEN Skipped(acc, k, "record")
    ELSE IF IsBlack(acc.edits[k]) THEN LoadBlack(acc, k, in)
    ELSE LoadMovie(acc, k, in)

\* the strip new_sound gives for the edit on the track, trimmed and named
SoundOf(edit, in, track_idx) ==
    [NewStrip("SOUND", as_name(edit) \o <<"_", "A">> \o NatToDigits(track_idx),
              in.audio_channels[track_idx], FrameOf(edit.recIn) + in.global_offset, 0)
        EXCEPT !.animation_offset_start = FrameOf(edit.srcIn) + ReelOffset(in, edit),
               !.animation_offset_end =
                   MediaLength - (FrameOf(edit.srcOut) + ReelOffset(in, edit))]

\* the second pass, the loop body for the edit at place k on a track
LoadAudioStep(acc, k, in, track_idx) ==
    IF ~IsAudioEdit(acc.edits[k]) \/ IsBlack(acc.edits[k]) THEN acc
    ELSE IF SrcDuration(acc.edits[k]) <= 0 \/ RecDuration(acc.edits[k]) <= 0
    THEN Skipped(acc, k, "audio")
    ELSE IF ~HasFile(in, acc.edits[k]) THEN acc
    ELSE IF in.media \in {"ok", "wav"}
    THEN [acc EXCEPT !.strips = Append(@, SoundOf(acc.edits[k], in, track_idx))]
    ELSE acc

\* the markers of the items of custom_data from place i on
RECURSIVE MarkersOf(_, _, _)
MarkersOf(edit, i, in) ==
    IF i > Len(edit.custom_data) THEN <<>>
    ELSE (IF edit.custom_data[i].kind = "marker"
          THEN <<[name |-> edit.custom_data[i].name,
                  frame |-> FrameOf(edit.recIn) + in.global_offset]>>
          ELSE <<>>)
         \o MarkersOf(edit, i + 1, in)

RECURSIVE LoadVideo(_, _, _), LoadAudio(_, _, _, _), LoadTracks(_, _, _), LoadMarkers(_, _, _)
LoadVideo(acc, k, in) ==
    IF k > Len(acc.edits) THEN acc ELSE LoadVideo(LoadVideoStep(acc, k, in), k + 1, in)

LoadAudio(acc, k, in, track_idx) ==
    IF k > Len(acc.edits) THEN acc
    ELSE LoadAudio(LoadAudioStep(acc, k, in, track_idx), k + 1, in, track_idx)

LoadTracks(acc, in, track_idx) ==
    IF track_idx > Len(in.audio_channels) THEN acc
    ELSE LoadTracks(LoadAudio(acc, 1, in, track_idx), in, track_idx + 1)

LoadMarkers(acc, k, in) ==
    IF k > Len(acc.edits) THEN acc
    ELSE LoadMarkers([acc EXCEPT !.markers = @ \o MarkersOf(acc.edits[k], 1, in)], k + 1, in)

\* load_edl before the passes
NewLoad(edits) ==
    [msg |-> <<>>, raised |-> "", edits |-> edits, strips |-> <<>>,
     made |-> [k \in 1..Len(edits) |-> 0], prev |-> 0, skipped |-> <<>>, markers |-> <<>>]

\* a timecode slot of the edit was never assigned: int() of it raises
HasUnsetTimecode(edit) ==
    edit.srcIn = None \/ edit.srcOut = None \/ edit.recIn = None \/ edit.recOut = None

S_UnableToParse ==
    <<"U", "n", "a", "b", "l", "e", " ", "t", "o", " ", "p", "a", "r", "s", "e">>

\* load_edl after elist.parse gave the edits
LoadParsed(edits, in) ==
    IF edits = <<>> THEN [NewLoad(edits) EXCEPT !.msg = S_UnableToParse]
    ELSE IF \E k \in 1..Len(edits) : HasUnsetTimecode(edits[k])
    THEN [NewLoad(edits) EXCEPT !.raised = "TypeError"]
    ELSE LoadMarkers(LoadTracks(LoadVideo(NewLoad(edits), 1, in), in, 1), 1, in)

\* load_edl(scene, filepath, reel_files, reel_offsets, global_offset,
\* video_channel, audio_channels)
load_edl(in, fps) ==
    IF ~in.readable THEN [NewLoad(<<>>) EXCEPT !.msg = S_UnableToParse]
    ELSE LoadParsed(parse(<<>>, in.lines, fps).edits, in)

\* the lines of the files loaded: event lines as the writer gives them
L_OneFrame ==
    EventLine(create_edl_block(Strip_("MOVIE", 1, 30, 31, 0, 100), 2, DefaultFps,
                               <<"V">>, S_ClipPath, NoScene), "CMX3600")

L_Audio ==
    EventLine(create_edl_block(Strip_("SOUND", 2, 0, 25, 0, 100), 3, DefaultFps,
                               ALabel(1), S_ClipPath, NoScene), "CMX3600")

L_Gap == EventLine(create_gap_block(4, DefaultFps, 26, 30, <<"V">>), "CMX3600")

L_Dissolve ==
    EventLine(create_edl_block(Strip_("CROSS", 1, 25, 50, 0, 100), 5, DefaultFps,
                               <<"V">>, S_ClipPath, NoScene), "CMX3600")

L_Wipe ==
    <<"0", "0", "6", " ", "A", "X", " ", "V", " ", "W", "0", "0", "1", " ",
      "0", "1", "0", " ">>
    \o TCText(0, 0, 0, 0, ":") \o Sp(1) \o TCText(0, 0, 1, 0, ":") \o Sp(1)
    \o TCText(0, 0, 2, 0, ":") \o Sp(1) \o TCText(0, 0, 3, 0, ":")

LoadLines == {L_Cut, L_OneFrame, L_Audio, L_Gap, L_Dissolve, L_Wipe, L_MarkerLine}

MaxLoadLines == 3

LDIdle == ld_in = None /\ ld_out = None

LDInit ==
    /\ ld_in \in {Some([readable |-> r, lines |-> AsRead(ls, TRUE), media |-> m,
                        reel_offset |-> 5, global_offset |-> g, video_channel |-> 1,
                        audio_channels |-> <<2, 3>>]) :
                     r \in BOOLEAN, m \in {"missing", "broken", "wav", "ok"}, g \in {0, 10},
                     ls \in UNION {[1..n -> LoadLines] : n \in 0..MaxLoadLines}}
    /\ ld_out = None

\* load_edl at the scene's frame rate
LoadEdl ==
    /\ ld_out = None
    /\ ld_out' = Some(load_edl(ld_in[1], DefaultFps))
    /\ UNCHANGED <<ld_in, ldOthers>>

LDNext == LoadEdl

\* the call returned "" and raised nothing
Loaded == ld_out # None /\ ld_out[1].msg = <<>> /\ ld_out[1].raised = ""

\* the events EditList.parse gives for the file of the call
EventsOfFile == parse(<<>>, ld_in[1].lines, DefaultFps).edits

\* the timeline has a marker of that name at the event's record-in frame
\* moved by the global offset
HasMarker(markers, edit, name, global_offset) ==
    \E j \in 1..Len(markers) :
        /\ markers[j].name = name
        /\ markers[j].frame = FrameOf(edit.recIn) + global_offset

MarkersCreated(markers, edit, global_offset) ==
    \A i \in 1..Len(edit.custom_data) :
        IsMarkerRecord(edit.custom_data[i]) =>
            HasMarker(markers, edit, edit.custom_data[i].name, global_offset)

\* C21: after load_edl returned successfully, every parsed event that
\* carries a marker record has a timeline marker of that name at the
\* event's record-in frame plus the global offset, whether the event is
\* video or audio and whether or not a strip was created for it.
C21_MarkerForEveryMarkedEvent ==
    Loaded =>
        \A k \in 1..Len(EventsOfFile) :
            MarkersCreated(ld_out[1].markers, EventsOfFile[k], ld_in[1].global_offset)

\* the event's source or record out point lies before its in point
OutBeforeIn(edit) == SrcDuration(edit) < 0 \/ RecDuration(edit) < 0

\* C27: every event the exporter builds from a strip or a gap of at least
\* one frame passes the duration validation of load_edl; the only events
\* load_edl skips are those whose out point lies before their in point.
C27_WrittenEventsPassValidation ==
    Loaded =>
        \A j \in 1..Len(ld_out[1].skipped) :
            OutBeforeIn(ld_out[1].edits[ld_out[1].skipped[j].edit])

(***************************************************************************)
(* Specifications: one per component, the other components idle.           *)
(***************************************************************************)
TCSpecInit ==
    TCInit /\ RLIdle /\ OVIdle /\ LNIdle /\ PSIdle /\ EXIdle /\ DFIdle /\ ATIdle /\ LDIdle

SpecTC == TCSpecInit /\ [][TCNext]_vars

RLSpecInit ==
    RLInit /\ TCIdle /\ OVIdle /\ LNIdle /\ PSIdle /\ EXIdle /\ DFIdle /\ ATIdle /\ LDIdle

SpecReel == RLSpecInit /\ [][RLNext]_vars

OVSpecInit ==
    OVInit /\ TCIdle /\ RLIdle /\ LNIdle /\ PSIdle /\ EXIdle /\ DFIdle /\ ATIdle /\ LDIdle

SpecOverlap == OVSpecInit /\ [][OVNext]_vars

LNSpecInit ==
    LNInit /\ TCIdle /\ RLIdle /\ OVIdle /\ PSIdle /\ EXIdle /\ DFIdle /\ ATIdle /\ LDIdle

SpecLine == LNSpecInit /\ [][LNNext]_vars

PSSpecInit ==
    PSInit /\ TCIdle /\ RLIdle /\ OVIdle /\ LNIdle /\ EXIdle /\ DFIdle /\ ATIdle /\ LDIdle

SpecParse == PSSpecInit /\ [][PSNext]_vars

EXSpecInit ==
    EXInit /\ TCIdle /\ RLIdle /\ OVIdle /\ LNIdle /\ PSIdle /\ DFIdle /\ ATIdle /\ LDIdle

SpecExport == EXSpecInit /\ [][EXNext]_vars

DFSpecInit ==
    DFInit /\ TCIdle /\ RLIdle /\ OVIdle /\ LNIdle /\ PSIdle /\ EXIdle /\ ATIdle /\ LDIdle

SpecDetect == DFSpecInit /\ [][DFNext]_vars

EXRunSpecInit ==
    EXRunInit /\ TCIdle /\ RLIdle /\ OVIdle /\ LNIdle /\ PSIdle /\ DFIdle /\ ATIdle /\ LDIdle

SpecExportRun == EXRunSpecInit /\ [][EXNext]_vars

ATSpecInit ==
    ATInit /\ TCIdle /\ RLIdle /\ OVIdle /\ LNIdle /\ PSIdle /\ EXIdle /\ DFIdle /\ LDIdle

SpecAudioTracks == ATSpecInit /\ [][ATNext]_vars

PSReparseSpecInit ==
    PSReparseInit /\ TCIdle /\ RLIdle /\ OVIdle /\ LNIdle /\ EXIdle /\ DFIdle /\ ATIdle /\ LDIdle

SpecReparse == PSReparseSpecInit /\ [][PSReparseNext]_vars

EXDetectSpecInit ==
    EXDetectInit /\ TCIdle /\ RLIdle /\ OVIdle /\ LNIdle /\ PSIdle /\ ATIdle /\ LDIdle

SpecExportDetect == EXDetectSpecInit /\ [][EXDetectNext]_vars

LDSpecInit ==
    LDInit /\ TCIdle /\ RLIdle /\ OVIdle /\ LNIdle /\ PSIdle /\ EXIdle /\ DFIdle /\ ATIdle

SpecLoad == LDSpecInit /\ [][LDNext]_vars

====
